---- MODULE Spec2Model ----
(***************************************************************************)
(* Plugin store manager of LEDMatrix (src/plugin_system/store_manager.py): *)
(* acquisition, installation, update and removal of plugin directories.    *)
(*                                                                         *)
(* The plugins root is a map from directory names to directory contents;   *)
(* the remote repository, the registry answer and the behaviour of the     *)
(* external tools (git, HTTP, pip, sudo) form the environment env, which   *)
(* stays the same during one behaviour ("an unchanged remote").  Every     *)
(* public method of PluginStoreManager is one action; its private helpers  *)
(* are operators over a world record w:                                    *)
(*    w.fs      the directories (plugins root plus the scratch directory)  *)
(*    w.trace   the acquisition and removal steps taken so far             *)
(*    w.touched the paths holding content written by the running call      *)
(***************************************************************************)
EXTENDS Integers, Sequences, FiniteSets, TLC

VARIABLES fs, env, last, net, vdm, procs, http

vars == <<fs, env, last, net, vdm, procs, http>>

---------------------------------------------------------------------------
(* Values *)

None == "None"

Truthy(v) == v # None /\ v # ""

Ids == {"A", "B"}

Tmp == "tmp"

(* the copy of a plugin under the project's standard plugins/ directory,   *)
(* when the manager is configured with another directory                   *)
Std(id) == IF id = "A" THEN "plugins/A" ELSE "plugins/B"

Paths == Ids \cup {Tmp} \cup {Std(id) : id \in Ids}

max_files == 500

MaxOver == 1

SubDepth == 2

RequiredFields == <<"id", "name", "class_name", "display_modes">>

ManifestFields == {"id", "name", "class_name", "display_modes", "entry_point", "version"}

FullManifest(id) ==
    [id |-> id, name |-> "n", class_name |-> "C", display_modes |-> "d",
     entry_point |-> "manager.py", version |-> "1"]

Without(m, fields) == [f \in ManifestFields |-> IF f \in fields THEN None ELSE m[f]]

NoManifest == Without(FullManifest("A"), ManifestFields)

Url(base) == [base |-> base, dotgit |-> FALSE, slash |-> FALSE, upper |-> FALSE]

NoUrl == Url("")

NoGit == [git |-> FALSE, sha |-> <<>>, branch |-> None, url |-> NoUrl,
          upstream |-> None, mods |-> FALSE, stash |-> FALSE]

Absent ==
    [exists |-> FALSE, mstate |-> "none", manifest |-> NoManifest, classes |-> <<>>,
     entry |-> FALSE, reqs |-> FALSE, nfiles |-> 0, vcs |-> NoGit, meta |-> "none",
     marker |-> FALSE, nested |-> FALSE, perm |-> "rw"]

EmptyDir == [Absent EXCEPT !.exists = TRUE]

IsEmptyDir(d) == d = [EmptyDir EXCEPT !.perm = d.perm]

BundleDir(b) ==
    [exists |-> TRUE, mstate |-> b.mstate, manifest |-> b.manifest, classes |-> b.classes,
     entry |-> b.entry, reqs |-> b.reqs, nfiles |-> b.nfiles, vcs |-> NoGit,
     meta |-> "none", marker |-> FALSE, nested |-> FALSE, perm |-> "rw"]

CloneDir(b, branch, url) ==
    [BundleDir(b) EXCEPT !.vcs = [git |-> TRUE, sha |-> env.remoteSha, branch |-> branch,
                                  url |-> url, upstream |-> branch, mods |-> FALSE,
                                  stash |-> FALSE]]

(* Files written over an existing directory: same-named files are replaced, *)
(* everything else the directory held stays.                                *)
MergeDir(old, b) ==
    [exists |-> TRUE,
     mstate |-> IF b.mstate = "none" THEN old.mstate ELSE b.mstate,
     manifest |-> IF b.mstate = "none" THEN old.manifest ELSE b.manifest,
     classes |-> IF b.entry THEN b.classes ELSE old.classes,
     entry |-> b.entry \/ old.entry,
     reqs |-> b.reqs \/ old.reqs,
     nfiles |-> IF old.nfiles > b.nfiles THEN old.nfiles ELSE b.nfiles,
     vcs |-> old.vcs, meta |-> old.meta, marker |-> old.marker,
     nested |-> old.nested, perm |-> old.perm]

---------------------------------------------------------------------------
(* The world threaded through the helpers *)

(* temps: the temporary files and scratch directories of the archive       *)
(* strategies (tempfile.NamedTemporaryFile, tempfile.mkdtemp) still on disk *)
World(f) == [fs |-> f, trace |-> <<>>, touched |-> {}, temps |-> {}]

Ev(ev, arg, ok, n) == [ev |-> ev, arg |-> arg, ok |-> ok, n |-> n]

Log(w, e) == [w EXCEPT !.trace = Append(@, e)]

Put(w, p, d) == [w EXCEPT !.fs[p] = d, !.touched = @ \cup {p}]

Del(w, p) == [w EXCEPT !.fs[p] = Absent, !.touched = @ \ {p}]

Exists(w, p) == w.fs[p].exists

(* _safe_remove_directory: stage 1 plain rmtree, stage 2 chmod and rmtree,  *)
(* stage 3 sudo rm -rf.  The stage that removes the directory is logged.    *)
(* lines 1652-1657: shutil.rmtree succeeds on a writable tree *)
Stage1Removes(d) == d.perm = "rw"

(* lines 1659-1676: chmod succeeds on files the user owns, then rmtree *)
Stage2Removes(d) == d.perm \in {"rw", "ro"}

(* sudo_remove_directory (src.common.permission_utils): the privilege-      *)
(* escalated recursive delete; it answers True when it removed the path.    *)
SudoRemoveDirectory(d) == env.sudo

(* faulty variant: the privileged delete is tried before the plain ones *)
RemovalStagePrivilegedFirst(d) ==
    IF SudoRemoveDirectory(d) THEN 3
    ELSE IF Stage1Removes(d) THEN 1
    ELSE IF Stage2Removes(d) THEN 2
    ELSE 0

RemovalStage(d) ==
    IF Stage1Removes(d) THEN 1
    ELSE IF Stage2Removes(d) THEN 2
    ELSE IF SudoRemoveDirectory(d) THEN 3
    ELSE 0

SafeRemoveDirectory(w, p) ==
    IF ~Exists(w, p) THEN [w |-> w, ok |-> TRUE]
    ELSE LET stage == RemovalStage(w.fs[p])
         IN IF stage > 0
            THEN [w |-> Log(Del(w, p), Ev("rm", p, TRUE, stage)), ok |-> TRUE]
            ELSE [w |-> Log(w, Ev("rm", p, FALSE, 3)), ok |-> FALSE]

RemoveIfExists(w, p) == IF Exists(w, p) THEN SafeRemoveDirectory(w, p).w ELSE w

(* _distinct_sequence: drop falsy entries and later duplicates *)
RECURSIVE DistinctFrom(_, _, _)
DistinctFrom(values, i, ordered) ==
    IF i > Len(values) THEN ordered
    ELSE IF ~Truthy(values[i]) \/ (\E j \in 1..Len(ordered) : ordered[j] = values[i])
         THEN DistinctFrom(values, i + 1, ordered)
         ELSE DistinctFrom(values, i + 1, Append(ordered, values[i]))

(* faulty variant: the list is read from its end *)
DistinctSequenceFromEnd(values) ==
    DistinctFrom([i \in 1..Len(values) |-> values[Len(values) + 1 - i]], 1, <<>>)

DistinctSequence(values) == DistinctFrom(values, 1, <<>>)

---------------------------------------------------------------------------
(* Acquisition strategies *)

CloneSucceeds(w, target, b) ==
    /\ env.gitAvail
    /\ b \in env.exists
    /\ (~Exists(w, target) \/ IsEmptyDir(w.fs[target]))

RECURSIVE GitTry(_, _, _, _, _)
GitTry(w, url, target, branches, i) ==
    IF i > Len(branches) THEN [w |-> w, ret |-> None, done |-> FALSE]
    ELSE IF CloneSucceeds(w, target, branches[i])
         THEN [w |-> Log(Put(w, target, CloneDir(env.bundle, branches[i], url)),
                         Ev("git", branches[i], TRUE, env.bundle.nfiles)),
               ret |-> branches[i], done |-> TRUE]
         ELSE GitTry(RemoveIfExists(Log(w, Ev("git", branches[i], FALSE, 0)), target),
                     url, target, branches, i + 1)

InstallViaGit(w, url, target, branches) ==
    LET distinct == DistinctSequence(branches)
        branches_to_try == IF distinct = <<>> THEN <<"main", "master">> ELSE distinct
        r == GitTry(w, url, target, branches_to_try, 1)
    IN IF r.done THEN [w |-> r.w, ret |-> r.ret]
       ELSE IF env.head # None /\ CloneSucceeds(r.w, target, env.head)
            THEN [w |-> Log(Put(r.w, target, CloneDir(env.bundle, env.head, url)),
                            Ev("gitdefault", None, TRUE, env.bundle.nfiles)),
                  ret |-> None]
            ELSE [w |-> RemoveIfExists(Log(r.w, Ev("gitdefault", None, FALSE, 0)), target),
                  ret |-> None]

(* _install_via_download: the archive of a branch, root directory stripped. *)
(* An entry climbing above the scratch directory (more than the archive's   *)
(* root level) is a zip-slip; shutil.move into an existing directory nests. *)
(* The finally of lines 1503-1506 removes the temporary zip file; the       *)
(* scratch directory is removed on the zip-slip path (line 1480) and after  *)
(* the move (lines 1498-1499), so a move that raises (line 1492) leaves it. *)
(* env.archiveFault: "stream" breaks iter_content after the temporary file  *)
(* is open (lines 1454-1457: tmp_zip_path is bound only after the loop),    *)
(* "move" makes shutil.move raise.                                          *)
InstallViaDownload(w, b, target) ==
    IF ~(env.zipOk /\ b \in env.exists) THEN [w |-> Log(w, Ev("zip", b, FALSE, 0)), ok |-> FALSE]
    ELSE IF env.archiveFault = "stream"
    THEN [w |-> Log([w EXCEPT !.temps = @ \cup {"tmp_zip"}], Ev("zip", b, FALSE, 0)),
          ok |-> FALSE]
    ELSE IF env.bundle.ups > 1 THEN [w |-> Log(w, Ev("zipslip", b, FALSE, 0)), ok |-> FALSE]
    ELSE IF env.archiveFault = "move"
    THEN [w |-> Log([w EXCEPT !.temps = @ \cup {"temp_extract"}], Ev("zip", b, FALSE, 0)),
          ok |-> FALSE]
    ELSE IF ~Exists(w, target)
         THEN [w |-> Log(Put(w, target, BundleDir(env.bundle)),
                         Ev("zip", b, TRUE, env.bundle.nfiles)), ok |-> TRUE]
    ELSE IF w.fs[target].nested
    THEN [w |-> Log([w EXCEPT !.temps = @ \cup {"temp_extract"}], Ev("zip", b, FALSE, 0)),
          ok |-> FALSE]
    ELSE [w |-> Log(Put(w, target, [w.fs[target] EXCEPT !.nested = TRUE]),
                    Ev("zip", b, TRUE, env.bundle.nfiles)), ok |-> TRUE]

(* faulty variant: the ceiling is not enforced *)
TooManyFilesIgnored(n) == FALSE

(* lines 1302-1309: the file-count ceiling *)
TooManyFiles(n) == n > max_files

(* _install_from_monorepo_api: tree listing, then one raw fetch per file.   *)
(* The entry escaping the target sorts first; the raw fetch that fails is   *)
(* number env.rawFailAt (0: none fails).                                    *)
InstallFromMonorepoApi(w, b, target) ==
    IF env.apiMode # "ok" \/ b \notin env.exists
    THEN [w |-> Log(w, Ev("api", b, FALSE, 0)), ok |-> FALSE]
    ELSE IF env.bundle.nfiles = 0 \/ TooManyFiles(env.bundle.nfiles)
    THEN [w |-> Log(w, Ev("api", b, FALSE, 0)), ok |-> FALSE]
    ELSE LET w1 == IF Exists(w, target) THEN w ELSE Put(w, target, EmptyDir)
         IN IF env.bundle.ups > 0
            THEN [w |-> RemoveIfExists(Log(w1, Ev("traversal", b, FALSE, 0)), target),
                  ok |-> FALSE]
            ELSE IF env.rawFailAt > 0 /\ env.rawFailAt <= env.bundle.nfiles
            THEN [w |-> RemoveIfExists(Log(w1, Ev("api", b, FALSE, env.rawFailAt - 1)), target),
                  ok |-> FALSE]
            ELSE [w |-> Log(Put(w1, target,
                                IF IsEmptyDir(w1.fs[target]) THEN BundleDir(env.bundle)
                                ELSE MergeDir(w1.fs[target], env.bundle)),
                            Ev("api", b, TRUE, env.bundle.nfiles)),
                  ok |-> TRUE]

(* _install_from_monorepo_zip: extract the sub-path of the archive into a   *)
(* scratch directory, then move it to the target.  The finally of lines     *)
(* 1430-1434 removes the temporary zip file and the scratch directory it    *)
(* knows of; tmp_zip_path is bound only after the download loop (line 1379).*)
InstallFromMonorepoZip(w, b, target) ==
    IF ~(env.zipOk /\ b \in env.exists) THEN [w |-> Log(w, Ev("mzip", b, FALSE, 0)), ok |-> FALSE]
    ELSE IF env.archiveFault = "stream"
    THEN [w |-> Log([w EXCEPT !.temps = @ \cup {"tmp_zip"}], Ev("mzip", b, FALSE, 0)),
          ok |-> FALSE]
    ELSE IF env.bundle.nfiles = 0 THEN [w |-> Log(w, Ev("mzip", b, FALSE, 0)), ok |-> FALSE]
    ELSE IF env.bundle.ups > 1 + SubDepth
    THEN [w |-> Log(w, Ev("zipslip", b, FALSE, 0)), ok |-> FALSE]
    ELSE LET r == SafeRemoveDirectory(Log(w, Ev("mzip", b, TRUE, env.bundle.nfiles)), target)
         IN IF ~r.ok \/ env.archiveFault = "move"
            THEN [w |-> SafeRemoveDirectory(Log(w, Ev("mzip", b, FALSE, 0)), target).w,
                           ok |-> FALSE]
            ELSE [w |-> Put(r.w, target, BundleDir(env.bundle)), ok |-> TRUE]

(* faulty variant: the archive is tried before the tree listing *)
InstallFromMonorepoArchiveFirst(w, b, target) ==
    LET zip == InstallFromMonorepoZip(w, b, target)
    IN IF zip.ok THEN zip
       ELSE InstallFromMonorepoApi(RemoveIfExists(zip.w, target), b, target)

InstallFromMonorepo(w, b, target) ==
    LET api == InstallFromMonorepoApi(w, b, target)
    IN IF api.ok THEN api
       ELSE InstallFromMonorepoZip(RemoveIfExists(api.w, target), b, target)

---------------------------------------------------------------------------
(* Manifest validation *)

(* _detect_class_name: the first class whose base list names BasePlugin,    *)
(* else the first class declared at the start of a line.                    *)
RECURSIVE FirstWhere(_, _, _)
FirstWhere(classes, i, field) ==
    IF i > Len(classes) THEN None
    ELSE IF classes[i][field] THEN classes[i].name
    ELSE FirstWhere(classes, i + 1, field)

DetectClassName(classes) ==
    IF FirstWhere(classes, 1, "base") # None THEN FirstWhere(classes, 1, "base")
    ELSE FirstWhere(classes, 1, "top")

Missing(manifest) == SelectSeq(RequiredFields, LAMBDA f : manifest[f] = None)

Drop(seq, x) == SelectSeq(seq, LAMBDA f : f # x)

(* faulty variant: the repaired manifest is used in memory, never written *)
RewrittenInMemory(d, m) == d

(* json.dump of the repaired manifest; in a checkout the file is tracked,   *)
(* so the rewrite is a local modification.                                 *)
Rewritten(d, m) == [d EXCEPT !.manifest = m, !.vcs.mods = d.vcs.git]

(* _install_dependencies: pip runs only when requirements.txt is present *)
InstallDependencies(w, p) ==
    IF ~w.fs[p].reqs THEN [w |-> w, ok |-> TRUE]
    ELSE [w |-> Log(w, Ev("deps", p, env.depsOk, 0)), ok |-> env.depsOk]

Result(w, ret, id, branch) ==
    [w |-> w, ret |-> ret, id |-> id, branch |-> branch, raised |-> FALSE, via |-> None]

(* an exception that leaves the operation instead of a result *)
Raised(w, id) == [Result(w, FALSE, id, None) EXCEPT !.raised = TRUE]

(* lines 733-735: registry.get('plugins') and p['id'] on every entry read  *)
(* up to the match; a registry of another shape raises here                *)
GetPluginInfoRaises == env.regShape # "ok"

---------------------------------------------------------------------------
(* install_plugin *)

(* faulty variant: no break after the first successful candidate *)
RECURSIVE MonorepoLoopNoBreak(_, _, _, _)
MonorepoLoopNoBreak(w, target, candidates, i) ==
    IF i > Len(candidates) THEN [w |-> w, ret |-> None]
    ELSE LET r == InstallFromMonorepo(w, candidates[i], target)
             rest == MonorepoLoopNoBreak(r.w, target, candidates, i + 1)
         IN IF r.ok /\ rest.ret = None THEN [w |-> rest.w, ret |-> candidates[i]] ELSE rest

RECURSIVE MonorepoLoop(_, _, _, _)
MonorepoLoop(w, target, candidates, i) ==
    IF i > Len(candidates) THEN [w |-> w, ret |-> None]
    ELSE LET r == InstallFromMonorepo(w, candidates[i], target)
         IN IF r.ok THEN [w |-> r.w, ret |-> candidates[i]]
            ELSE MonorepoLoop(r.w, target, candidates, i + 1)

RECURSIVE DownloadLoop(_, _, _, _)
DownloadLoop(w, target, candidates, i) ==
    IF i > Len(candidates) THEN [w |-> w, ret |-> None]
    ELSE LET r == InstallViaDownload(w, candidates[i], target)
         IN IF r.ok THEN [w |-> r.w, ret |-> candidates[i]]
            ELSE DownloadLoop(r.w, target, candidates, i + 1)

BranchCandidates(branch) ==
    DistinctSequence(<<branch, env.regBranch, env.defBranch, env.lastBranch, "main", "master">>)

(* lines 837-864: acquisition into plugins_dir / plugin_id *)
Acquire(w, plugin_id, candidates) ==
    IF env.subpath
    THEN MonorepoLoop(w, plugin_id, candidates, 1)
    ELSE LET g == InstallViaGit(w, env.regUrl, plugin_id, candidates)
         IN IF g.ret = None /\ ~Exists(g.w, plugin_id)
            THEN DownloadLoop(g.w, plugin_id, candidates, 1)
            ELSE g

(* faulty variant: the directory already at the manifest's id is not removed, so  *)
(* shutil.move nests the new one inside it                                *)
RenameWithoutReplace(w, plugin_id, manifest_plugin_id) ==
    IF manifest_plugin_id = plugin_id THEN [w |-> w, ok |-> TRUE, path |-> plugin_id]
    ELSE IF Exists(w, manifest_plugin_id)
    THEN [w |-> Del(Put(w, manifest_plugin_id, [w.fs[manifest_plugin_id] EXCEPT !.nested = TRUE]),
                    plugin_id),
          ok |-> TRUE, path |-> manifest_plugin_id]
    ELSE [w |-> Del(Put(w, manifest_plugin_id, w.fs[plugin_id]), plugin_id),
          ok |-> TRUE, path |-> manifest_plugin_id]

(* lines 883-899: the directory takes the manifest's id *)
RenameToManifestId(w, plugin_id, manifest_plugin_id) ==
    IF manifest_plugin_id = plugin_id THEN [w |-> w, ok |-> TRUE, path |-> plugin_id]
    ELSE LET r == SafeRemoveDirectory(w, manifest_plugin_id)
         IN IF ~r.ok THEN [w |-> r.w, ok |-> FALSE, path |-> plugin_id]
            ELSE [w |-> Log(Del(Put(r.w, manifest_plugin_id, r.w.fs[plugin_id]), plugin_id),
                            Ev("rename", manifest_plugin_id, TRUE, 0)),
                  ok |-> TRUE, path |-> manifest_plugin_id]

(* faulty variant: a dependency failure rolls the install back *)
FinishInstallOrRollback(dep, path, branch_display) ==
    IF dep.ok THEN Result(dep.w, TRUE, path, branch_display)
    ELSE Result(SafeRemoveDirectory(dep.w, path).w, FALSE, path, branch_display)

(* lines 939-944: a dependency failure is logged, the install succeeds *)
FinishInstall(dep, path, branch_display) == Result(dep.w, TRUE, path, branch_display)

(* lines 901-932: required fields, class_name detection, entry_point default *)
ValidateFields(w, path, branch_used) ==
    LET d == w.fs[path]
        manifest == d.manifest
        missing0 == Missing(manifest)
        entry_exists == d.entry
        detected == IF manifest.class_name = None /\ entry_exists
                    THEN DetectClassName(d.classes) ELSE None
        m1 == IF detected # None THEN [manifest EXCEPT !.class_name = detected] ELSE manifest
        missing == IF detected # None THEN Drop(missing0, "class_name") ELSE missing0
        m2 == IF m1.entry_point = None THEN [m1 EXCEPT !.entry_point = "manager.py"] ELSE m1
        manifest_modified == m2 # manifest
    IN IF missing # <<>>
       THEN Result(SafeRemoveDirectory(Log(w, Ev("validate", path, FALSE, Len(missing))), path).w,
                   FALSE, path, branch_used)
       ELSE LET w1 == Log(IF manifest_modified
                          THEN Put(w, path, Rewritten(d, m2)) ELSE w,
                          Ev("validate", path, TRUE, 0))
            IN FinishInstall(InstallDependencies(w1, path), path,
                             IF branch_used # None THEN branch_used
                             ELSE IF Truthy(env.regBranch) THEN env.regBranch
                             ELSE IF env.defBranch # None THEN env.defBranch ELSE "unknown")

(* lines 866-937 *)
ValidateInstalled(w, plugin_id, branch_used) ==
    LET d == w.fs[plugin_id]
    IN IF d.mstate # "ok"
       THEN Result(SafeRemoveDirectory(Log(w, Ev("manifest", plugin_id, FALSE, 0)), plugin_id).w,
                   FALSE, plugin_id, branch_used)
       ELSE IF ~Truthy(d.manifest.id)
       THEN Result(SafeRemoveDirectory(Log(w, Ev("manifest", plugin_id, FALSE, 1)), plugin_id).w,
                   FALSE, plugin_id, branch_used)
       ELSE LET rn == RenameToManifestId(w, plugin_id, d.manifest.id)
            IN IF ~rn.ok THEN Result(rn.w, FALSE, plugin_id, branch_used)
               ELSE ValidateFields(rn.w, rn.path, branch_used)

(* faulty variant: the directory already at the requested id is left in place *)
RemoveExistingSkipped(w, plugin_id) == [w |-> w, ok |-> TRUE]

(* lines 830-835: a directory already at the requested id is removed first *)
RemoveExisting(w, plugin_id) == SafeRemoveDirectory(w, plugin_id)

InstallPlugin(w, plugin_id, branch) ==
    IF GetPluginInfoRaises THEN Raised(w, plugin_id)
    ELSE IF ~env.found THEN Result(w, FALSE, plugin_id, None)
    ELSE LET candidates == BranchCandidates(branch)
             rm == RemoveExisting(w, plugin_id)
         IN IF ~rm.ok THEN Result(rm.w, FALSE, plugin_id, None)
            ELSE LET a == Acquire(rm.w, plugin_id, candidates)
                 IN IF a.ret = None /\ (env.subpath \/ ~Exists(a.w, plugin_id))
                    THEN Result(a.w, FALSE, plugin_id, None)
                    ELSE ValidateInstalled(a.w, plugin_id, a.ret)

---------------------------------------------------------------------------
(* install_from_url *)

(* line 976: repo_url.rstrip('/').replace('.git', '') *)
CleanUrl(u) == [u EXCEPT !.slash = FALSE, !.dotgit = FALSE]

(* lines 986-1018: acquisition into the scratch directory *)
AcquireFromUrl(w, repo_url, plugin_path, candidates) ==
    IF plugin_path
    THEN MonorepoLoop(w, Tmp, candidates, 1)
    ELSE LET g == InstallViaGit(w, repo_url, Tmp, candidates)
         IN IF Truthy(g.ret) THEN g ELSE DownloadLoop(g.w, Tmp, candidates, 1)

(* faulty variant: the installed directory is removed before the manifest  *)
(* is checked                                                              *)
ValidateFromUrlRemoveFirst(w, plugin_id, branch_used) ==
    LET d == w.fs[Tmp]
        id == IF Truthy(plugin_id) THEN plugin_id ELSE d.manifest.id
        w0 == IF id \in Ids THEN RemoveIfExists(w, id) ELSE w
    IN IF d.mstate # "ok" THEN Result(Log(w0, Ev("manifest", Tmp, FALSE, 0)), FALSE, plugin_id, None)
       ELSE IF ~Truthy(id) THEN Result(Log(w0, Ev("manifest", Tmp, FALSE, 1)), FALSE, plugin_id, None)
       ELSE IF Missing(d.manifest) # <<>>
       THEN Result(Log(w0, Ev("validate", Tmp, FALSE, Len(Missing(d.manifest)))), FALSE, id, None)
       ELSE LET w1 == Log(IF d.manifest.entry_point = None
                          THEN Put(w0, Tmp, Rewritten(d, [d.manifest EXCEPT
                                                              !.entry_point = "manager.py"]))
                          ELSE w0,
                          Ev("validate", Tmp, TRUE, 0))
                rm == SafeRemoveDirectory(w1, id)
            IN IF ~rm.ok THEN Result(rm.w, FALSE, id, None)
               ELSE LET w2 == Log(Del(Put(rm.w, id, rm.w.fs[Tmp]), Tmp), Ev("rename", id, TRUE, 0))
                    IN Result(InstallDependencies(w2, id).w, TRUE, id, branch_used)

(* lines 1020-1093 *)
ValidateFromUrl(w, plugin_id, branch_used) ==
    LET d == w.fs[Tmp]
        id == IF Truthy(plugin_id) THEN plugin_id ELSE d.manifest.id
    IN IF d.mstate # "ok" THEN Result(Log(w, Ev("manifest", Tmp, FALSE, 0)), FALSE, plugin_id, None)
       ELSE IF ~Truthy(id) THEN Result(Log(w, Ev("manifest", Tmp, FALSE, 1)), FALSE, plugin_id, None)
       ELSE IF Missing(d.manifest) # <<>>
       THEN Result(Log(w, Ev("validate", Tmp, FALSE, Len(Missing(d.manifest)))), FALSE, id, None)
       ELSE LET w1 == Log(IF d.manifest.entry_point = None
                          THEN Put(w, Tmp, Rewritten(d, [d.manifest EXCEPT
                                                             !.entry_point = "manager.py"]))
                          ELSE w,
                          Ev("validate", Tmp, TRUE, 0))
                rm == SafeRemoveDirectory(w1, id)
            IN IF ~rm.ok THEN Result(rm.w, FALSE, id, None)
               ELSE LET w2 == Log(Del(Put(rm.w, id, rm.w.fs[Tmp]), Tmp), Ev("rename", id, TRUE, 0))
                    IN Result(InstallDependencies(w2, id).w, TRUE, id, branch_used)

(* line 1107-1110: the scratch directory is removed if it is still there *)
CleanupTemp(r) == [r EXCEPT !.w = IF Exists(r.w, Tmp) THEN Del(r.w, Tmp) ELSE r.w]

InstallFromUrl(w, repo_url, plugin_id, plugin_path, branch) ==
    LET url == CleanUrl(repo_url)
        w0 == Put(w, Tmp, EmptyDir)
        candidates == IF Truthy(branch) THEN DistinctSequence(<<branch, "main", "master">>)
                      ELSE <<"main", "master">>
        a == AcquireFromUrl(w0, url, plugin_path, candidates)
    IN CleanupTemp(IF a.ret = None THEN Result(a.w, FALSE, plugin_id, None)
                   ELSE IF ~Exists(a.w, Tmp)
                   THEN Result(Log(a.w, Ev("manifest", Tmp, FALSE, 0)), FALSE, plugin_id, None)
                   ELSE ValidateFromUrl(a.w, plugin_id, a.ret))

---------------------------------------------------------------------------
(* uninstall_plugin and update_plugin *)

(* _find_plugin_path: the configured directory first, then plugins/ *)
FindPluginPath(w, plugin_id) ==
    IF Exists(w, plugin_id) THEN plugin_id
    ELSE IF Exists(w, Std(plugin_id)) THEN Std(plugin_id)
    ELSE None

UninstallPlugin(w, plugin_id) ==
    LET plugin_path == FindPluginPath(w, plugin_id)
    IN IF plugin_path = None THEN Result(w, TRUE, plugin_id, None)
       ELSE LET r == SafeRemoveDirectory(w, plugin_path)
            IN Result(r.w, r.ok, plugin_id, None)

(* faulty variant: the letter case is kept *)
NormalizeRepoUrlKeepCase(u) == [u EXCEPT !.slash = FALSE, !.dotgit = FALSE]

(* _normalize_repo_url: strip trailing "/" and ".git", lower-case *)
NormalizeRepoUrl(u) == [u EXCEPT !.slash = FALSE, !.dotgit = FALSE, !.upper = FALSE]

IsPrefix(s, t) == Len(s) <= Len(t) /\ SubSeq(t, 1, Len(s)) = s

(* faulty variant: the registry's sha compared with the abbreviated local sha *)
ShaMatchesShort(remote_sha, local_sha) ==
    /\ remote_sha # <<>>
    /\ local_sha # <<>>
    /\ remote_sha = SubSeq(local_sha, 1, 1)

(* remote_sha.startswith(local_sha), both truthy *)
ShaMatches(remote_sha, local_sha) ==
    /\ remote_sha # <<>>
    /\ local_sha # <<>>
    /\ IsPrefix(local_sha, remote_sha)

(* faulty variant: the local branch name is looked up before the registry's *)
RemotePullBranchLocalFirst(v, local_branch, remote_branch) ==
    IF Truthy(v.upstream) THEN v.upstream
    ELSE IF local_branch \in env.exists THEN local_branch
    ELSE IF Truthy(remote_branch) /\ remote_branch \in env.exists THEN remote_branch
    ELSE IF env.head # None THEN env.head
    ELSE local_branch

(* lines 1831-1901: the branch to pull *)
RemotePullBranch(v, local_branch, remote_branch) ==
    IF Truthy(v.upstream) THEN v.upstream
    ELSE IF Truthy(remote_branch) /\ remote_branch \in env.exists THEN remote_branch
    ELSE IF local_branch \in env.exists THEN local_branch
    ELSE IF env.head # None THEN env.head
    ELSE local_branch

(* lines 1914-1985: marker files are deleted, remaining changes stashed *)
PrepareWorktree(w, p) ==
    LET d == w.fs[p]
        w1 == IF d.marker
              THEN Log(Put(w, p, [d EXCEPT !.marker = FALSE]), Ev("unlink", p, TRUE, 0))
              ELSE w
        d1 == w1.fs[p]
    IN IF ~d1.vcs.mods THEN w1
       ELSE IF env.stashOk
       THEN Log(Put(w1, p, [d1 EXCEPT !.vcs.mods = FALSE, !.vcs.stash = TRUE]),
                Ev("stash", p, TRUE, 0))
       ELSE Log(w1, Ev("stash", p, FALSE, 0))

(* lines 1987-2010: git pull, then the dependencies *)
Pull(w, p, branch) ==
    LET d == w.fs[p]
    IN IF ~(env.pullOk /\ branch \in env.exists /\ ~d.vcs.mods)
       THEN Result(Log(w, Ev("pull", branch, FALSE, 0)), FALSE, p, branch)
       ELSE LET pulled == [BundleDir(env.bundle) EXCEPT
                              !.vcs = [d.vcs EXCEPT !.sha = env.remoteSha],
                              !.meta = d.meta, !.marker = d.marker,
                              !.nested = d.nested, !.perm = d.perm]
                w1 == Log(Put(w, p, pulled), Ev("pull", branch, TRUE, 0))
            IN Result(InstallDependencies(w1, p).w, TRUE, p, branch)

(* the outcome of the update path taken: a result, or a reinstall from the *)
(* registry still to run on the world the path left                        *)
Done(r) == [reinstall |-> FALSE, r |-> r]

Reinstall(w, plugin_id) == [reinstall |-> TRUE, r |-> Result(w, FALSE, plugin_id, None)]

(* remove the installed directory, then install_plugin(plugin_id) *)
RemoveThenReinstall(w, plugin_id) ==
    LET rm == SafeRemoveDirectory(w, plugin_id)
    IN IF rm.ok THEN Reinstall(rm.w, plugin_id)
       ELSE Done(Result(rm.w, FALSE, plugin_id, None))

(* lines 1779-2036 *)
UpdateViaGit(w, plugin_id) ==
    LET v == w.fs[plugin_id].vcs
        local_branch == IF Truthy(v.branch) THEN v.branch ELSE "main"
        remote_branch == IF Truthy(env.regBranch) THEN env.regBranch ELSE env.defBranch
        migrate == /\ env.found
                   /\ v.url # NoUrl
                   /\ env.regUrl # NoUrl
                   /\ NormalizeRepoUrl(v.url) # NormalizeRepoUrl(env.regUrl)
    IN IF migrate THEN RemoveThenReinstall(w, plugin_id)
       ELSE IF env.found /\ ShaMatches(env.regSha, v.sha)
       THEN Done(Result(w, TRUE, plugin_id, None))
       ELSE Done(Pull(PrepareWorktree(w, plugin_id), plugin_id,
                      RemotePullBranch(v, local_branch,
                                       IF env.found THEN remote_branch ELSE None)))

(* faulty variant: the versions are not compared *)
UpdateFromRegistryNoCompare(w, d, plugin_id) ==
    IF ~env.found THEN Done(Result(w, FALSE, plugin_id, None))
    ELSE RemoveThenReinstall(w, plugin_id)

(* lines 2088-2121: registry lookup, version comparison, reinstall *)
UpdateFromRegistry(w, d, plugin_id) ==
    IF ~env.found THEN Done(Result(w, FALSE, plugin_id, None))
    ELSE IF /\ d.mstate = "ok"
            /\ Truthy(d.manifest.version)
            /\ Truthy(env.regVersion)
            /\ d.manifest.version = env.regVersion
    THEN Done(Result(w, TRUE, plugin_id, None))
    ELSE RemoveThenReinstall(w, plugin_id)

(* lines 2062-2086: a reinstall from the recorded git remote that succeeded *)
(* ends the update; otherwise the registry path follows                     *)
AfterUrlReinstall(viaUrl, d, plugin_id) ==
    IF viaUrl.ret THEN Done(viaUrl) ELSE UpdateFromRegistry(viaUrl.w, d, plugin_id)

(* faulty variant: the recorded remote is used also for a listed plugin *)
UpdateViaArchiveUrlFirst(w, plugin_id) ==
    LET d == w.fs[plugin_id]
        repo_url == IF env.gitAvail THEN d.vcs.url ELSE NoUrl
        branch == IF Truthy(d.vcs.branch) THEN d.vcs.branch ELSE "main"
    IN IF repo_url # NoUrl
       THEN AfterUrlReinstall(InstallFromUrl(w, repo_url, plugin_id, FALSE, branch),
                              d, plugin_id)
       ELSE UpdateFromRegistry(w, d, plugin_id)

(* lines 2038-2120 *)
UpdateViaArchive(w, plugin_id) ==
    LET d == w.fs[plugin_id]
        repo_url == IF env.gitAvail THEN d.vcs.url ELSE NoUrl
        branch == IF Truthy(d.vcs.branch) THEN d.vcs.branch ELSE "main"
    IN IF ~env.found /\ repo_url # NoUrl
       THEN AfterUrlReinstall(InstallFromUrl(w, repo_url, plugin_id, FALSE, branch),
                              d, plugin_id)
       ELSE UpdateFromRegistry(w, d, plugin_id)

(* the update path a plan came from *)
Via(plan, path) == [plan EXCEPT !.r.via = path]

(* faulty variant: the git checkout is looked at before the bundled marker *)
UpdatePathGitFirst(w, plugin_id) ==
    LET d == w.fs[plugin_id]
        has_dot_git == d.vcs.git \/ d.vcs.url # NoUrl
    IN IF ~d.exists THEN Done(Result(w, FALSE, plugin_id, None))
       ELSE IF has_dot_git /\ ~env.gitAvail THEN Done(Result(w, FALSE, plugin_id, None))
       ELSE IF GetPluginInfoRaises THEN Done(Result(w, FALSE, plugin_id, None))
       ELSE IF d.vcs.git THEN Via(UpdateViaGit(w, plugin_id), "git")
       ELSE IF d.meta = "bundled" THEN Via(Done(Result(w, TRUE, plugin_id, None)), "bundled")
       ELSE Via(UpdateViaArchive(w, plugin_id), "archive")

(* lines 1765-1779, 2038: which update path applies.  A directory holds a  *)
(* .git directory when git reads a checkout from it (vcs.git) or when only *)
(* its configured remote is left (vcs.url).  _get_local_git_info answers   *)
(* only for a readable checkout; with a .git directory and no git tool the *)
(* subprocess call raises out into update_plugin's handler.                *)
UpdatePath(w, plugin_id) ==
    LET d == w.fs[plugin_id]
        has_dot_git == d.vcs.git \/ d.vcs.url # NoUrl
    IN IF ~d.exists THEN Done(Result(w, FALSE, plugin_id, None))
       ELSE IF d.meta = "bundled" THEN Via(Done(Result(w, TRUE, plugin_id, None)), "bundled")
       ELSE IF has_dot_git /\ ~env.gitAvail THEN Done(Result(w, FALSE, plugin_id, None))
       ELSE IF GetPluginInfoRaises THEN Done(Result(w, FALSE, plugin_id, None))
       ELSE IF d.vcs.git THEN Via(UpdateViaGit(w, plugin_id), "git")
       ELSE Via(UpdateViaArchive(w, plugin_id), "archive")

(* lines 2122-2126: whatever is raised inside update_plugin becomes False *)
Caught(r) == [r EXCEPT !.ret = r.ret /\ ~r.raised, !.raised = FALSE]

FinishUpdate(plan, plugin_id) ==
    IF plan.reinstall
    THEN [Caught(InstallPlugin(plan.r.w, plugin_id, None)) EXCEPT !.via = plan.r.via]
    ELSE plan.r

UpdatePlugin(w, plugin_id) == FinishUpdate(UpdatePath(w, plugin_id), plugin_id)

---------------------------------------------------------------------------
(* Environments: the registry answer, the remote repository and the tools *)

Class(name, base, top) == [name |-> name, base |-> base, top |-> top]

Bundle(manifest, classes) ==
    [mstate |-> "ok", manifest |-> manifest, classes |-> classes, entry |-> TRUE,
     reqs |-> TRUE, nfiles |-> 5, ups |-> 0]

GoodBundle(id) == Bundle(FullManifest(id), <<Class("C", TRUE, TRUE)>>)

OldSha == <<1, 1>>

NewSha == <<1, 2>>

NominalEnv ==
    [found |-> TRUE, subpath |-> FALSE, reqBranch |-> None, regBranch |-> None,
     defBranch |-> "main", lastBranch |-> None, regUrl |-> Url("x"), regSha |-> NewSha,
     regVersion |-> "1", exists |-> {"main", "master"}, head |-> "main",
     bundle |-> GoodBundle("A"), remoteSha |-> NewSha, gitAvail |-> TRUE,
     apiMode |-> "ok", rawFailAt |-> 0, zipOk |-> TRUE, depsOk |-> TRUE, sudo |-> TRUE,
     pullOk |-> TRUE, stashOk |-> TRUE, regShape |-> "ok", archiveFault |-> None]

MissingSets ==
    {{}, {"id"}, {"name"}, {"class_name"}, {"display_modes"}, {"entry_point"},
     {"class_name", "entry_point"}, {"class_name", "name"}}

ClassLists ==
    {<<>>,
     <<Class("P", FALSE, TRUE)>>,
     <<Class("P", FALSE, TRUE), Class("Q", TRUE, TRUE)>>,
     <<Class("N", FALSE, FALSE)>>,
     <<Class("N", FALSE, FALSE), Class("P", FALSE, TRUE)>>}

ManifestBundles ==
    {Bundle(Without(FullManifest(id), ms), <<Class("C", TRUE, TRUE)>>) :
        id \in Ids, ms \in MissingSets}
    \cup {Bundle(Without(FullManifest(id), {"class_name"}), cl) : id \in Ids, cl \in ClassLists}
    \cup {Bundle(Without([FullManifest(id) EXCEPT !.entry_point = "main.py"], ms),
                 <<Class("C", TRUE, TRUE)>>) : id \in Ids, ms \in {{}, {"class_name"}}}
    \cup {[Bundle(Without(FullManifest("B"), {"class_name"}), <<>>) EXCEPT !.entry = FALSE],
          Bundle([FullManifest("A") EXCEPT !.id = ""], <<Class("C", TRUE, TRUE)>>),
          [GoodBundle("A") EXCEPT !.mstate = "bad"],
          [GoodBundle("A") EXCEPT !.mstate = "none", !.manifest = NoManifest]}

(* validation cases, acquired by clone, by archive or from a monorepo *)
ManifestEnvs ==
    {[NominalEnv EXCEPT !.bundle = b, !.gitAvail = g, !.subpath = s] :
        b \in ManifestBundles, g \in BOOLEAN, s \in {FALSE}}

(* the branches of the remote; "dev" is a default branch that no candidate *)
(* list names                                                              *)
ExistsSets == {{}, {"master"}, {"main", "master"}, {"b1", "main"}, {"dev"}}

HeadOf(ex) ==
    IF "main" \in ex THEN "main"
    ELSE IF "master" \in ex THEN "master"
    ELSE IF "dev" \in ex THEN "dev"
    ELSE None

(* branch fallback cases *)
BranchEnvs ==
    {[NominalEnv EXCEPT !.bundle = GoodBundle(id), !.exists = ex, !.head = HeadOf(ex),
                        !.reqBranch = rb, !.regBranch = gb, !.gitAvail = g, !.zipOk = z,
                        !.subpath = s] :
        id \in Ids, ex \in ExistsSets, rb \in {None, "b1"}, gb \in {None, "b2"},
        g \in BOOLEAN, z \in BOOLEAN, s \in BOOLEAN}
    \cup {[NominalEnv EXCEPT !.reqBranch = rb, !.regBranch = gb, !.defBranch = db,
                             !.lastBranch = lb] :
            rb \in {"", "main", "b2"}, gb \in {"", "b2"}, db \in {"main", "dev"},
            lb \in {None, "b2", "master"}}

(* monorepo sub-path cases: listing size, escaping entries, API outcome *)
TreeEnvs ==
    {[NominalEnv EXCEPT !.subpath = TRUE, !.bundle = [GoodBundle(id) EXCEPT !.nfiles = n, !.ups = u],
                        !.apiMode = am, !.rawFailAt = rf, !.zipOk = z] :
        id \in Ids, n \in {0, 5, max_files, max_files + MaxOver},
        u \in {0, 1, SubDepth + 2}, am \in {"ok", "http", "truncated"},
        rf \in {0, 2}, z \in BOOLEAN}

(* tool failures *)
ToolEnvs ==
    {[NominalEnv EXCEPT !.bundle = [GoodBundle(id) EXCEPT !.reqs = rq], !.depsOk = dp,
                        !.sudo = su, !.found = fd] :
        id \in Ids, rq \in BOOLEAN, dp \in BOOLEAN, su \in BOOLEAN, fd \in BOOLEAN}

(* a registry that is valid JSON of another shape: an entry without "id"   *)
(* stands ahead of any entry for the plugin, so the lookup yields no entry  *)
ShapeEnvs ==
    {[NominalEnv EXCEPT !.regShape = "no_id", !.bundle = GoodBundle(id), !.found = FALSE] :
        id \in Ids}

(* archive faults: the download breaks in mid-stream, the move raises *)
InstallEnvs ==
    ManifestEnvs \cup BranchEnvs \cup TreeEnvs \cup ToolEnvs \cup ShapeEnvs
    \cup {[NominalEnv EXCEPT !.bundle = GoodBundle(id), !.gitAvail = FALSE, !.subpath = s,
                             !.apiMode = IF s THEN "http" ELSE "ok", !.archiveFault = af] :
            id \in Ids, s \in BOOLEAN, af \in {"stream", "move"}}

(* update cases: what the registry reports against the local checkout *)
RegistryEnvs ==
    {[NominalEnv EXCEPT !.regSha = rs, !.regUrl = ru, !.found = fd, !.regVersion = rv] :
        rs \in {<<>>, OldSha, NewSha},
        ru \in {Url("x"), [Url("x") EXCEPT !.dotgit = TRUE, !.slash = TRUE, !.upper = TRUE],
                Url("y")},
        fd \in BOOLEAN, rv \in {"0", "1"}}

UpdateEnvs ==
    {[e EXCEPT !.pullOk = po, !.stashOk = so, !.gitAvail = g, !.sudo = su] :
        e \in RegistryEnvs, po \in BOOLEAN, so \in BOOLEAN, g \in BOOLEAN, su \in BOOLEAN}
    \cup ShapeEnvs
    \cup {[NominalEnv EXCEPT !.regSha = NewSha, !.exists = ex,
                             !.head = IF hd THEN HeadOf(ex) ELSE None,
                             !.regBranch = rb, !.found = fd, !.regVersion = rv] :
            ex \in ExistsSets, hd \in BOOLEAN, rb \in {None, "b1", "dev"},
            fd \in BOOLEAN, rv \in {None, "0"}}

---------------------------------------------------------------------------
(* Plugin directories found in the plugins root when the manager starts *)

Installed(id, version) ==
    BundleDir([GoodBundle(id) EXCEPT !.manifest.version = version])

Checkout(id, url, sha) ==
    [Installed(id, "0") EXCEPT !.vcs = [git |-> TRUE, sha |-> sha, branch |-> "main",
                                        url |-> url, upstream |-> "main", mods |-> FALSE,
                                        stash |-> FALSE]]

EmptyRoot == [p \in Paths |-> Absent]

InstallRoots ==
    {EmptyRoot,
     [EmptyRoot EXCEPT !["B"] = [Installed("B", "0") EXCEPT !.perm = "root", !.marker = TRUE]],
     [EmptyRoot EXCEPT !["A"] = [Installed("A", "0") EXCEPT !.perm = "ro", !.marker = TRUE]]}

UpdateRoots ==
    {[EmptyRoot EXCEPT !["A"] = d] :
        d \in {Checkout("A", Url("x"), OldSha),
               [Checkout("A", Url("x"), OldSha) EXCEPT !.marker = TRUE, !.vcs.mods = TRUE],
               [Checkout("A", Url("x"), NewSha) EXCEPT !.marker = TRUE, !.vcs.mods = TRUE],
               [Checkout("A", Url("x"), OldSha) EXCEPT !.perm = "root", !.vcs.upstream = None],
               Installed("A", "0"),
               [Installed("A", "1") EXCEPT !.perm = "root", !.marker = TRUE],
               [Installed("A", "0") EXCEPT !.meta = "bundled"],
               [Checkout("A", Url("x"), OldSha) EXCEPT !.meta = "bundled"],
               [Installed("A", "0") EXCEPT !.vcs.url = Url("x")],
               [Checkout("A", Url("x"), OldSha) EXCEPT !.vcs.upstream = "master"],
               Installed("A", None)}}

---------------------------------------------------------------------------
(* The in-memory caches of one PluginStoreManager and the clock they read *)

cache_timeout == 3600

registry_cache_timeout == 300

commit_cache_timeout == 300

manifest_cache_timeout == 300

token_validation_cache_timeout == 300

(* time.time() at the first observed instant *)
StartTime == 1
(* lookups made in one behaviour *)
MaxCalls == 2

(* the instants at which the manager is observed: just inside and at each  *)
(* time-to-live after the first instant                                    *)
Instants ==
    <<StartTime,
      StartTime + registry_cache_timeout - 1,
      StartTime + registry_cache_timeout,
      StartTime + cache_timeout - 1,
      StartTime + cache_timeout>>

Now == Instants[net.tick]

(* the documents the registry URL can serve: a catalog, and the JSON       *)
(* object {} which Python treats as false                                  *)
Catalog == "catalog"

EmptyObject == "{}"

EmptyCatalog == "{plugins: []}"

DocTruthy(doc) == doc # None /\ doc # EmptyObject

NoEntry == [time |-> 0, data |-> None]

Entry(time, data) == [time |-> time, data |-> data]

KeyedCaches == {"github_cache", "commit_info_cache", "manifest_cache", "token_validation_cache"}

Timeout(cache) ==
    IF cache = "github_cache" THEN cache_timeout
    ELSE IF cache = "commit_info_cache" THEN commit_cache_timeout
    ELSE IF cache = "manifest_cache" THEN manifest_cache_timeout
    ELSE token_validation_cache_timeout

NoLookup ==
    [op |-> "none", bypass |-> FALSE, forced |-> FALSE, response |-> None, hit |-> FALSE,
     fetched |-> FALSE, result |-> None, raised |-> FALSE, before |-> NoEntry,
     now |-> StartTime, asked |-> <<>>, heads |-> {}]

Lookup(op, forced, response, hit, fetched, result, raised, before) ==
    [op |-> op, bypass |-> FALSE, forced |-> forced, response |-> response, hit |-> hit,
     fetched |-> fetched, result |-> result, raised |-> raised, before |-> before,
     now |-> Now, asked |-> <<>>, heads |-> {}]

(* lines 52-63: nothing is cached when the manager is constructed *)
NetInit ==
    [tick |-> 1, calls |-> 0, registry_cache |-> None, registry_cache_time |-> 0,
     plugins |-> <<>>, keyed |-> [c \in KeyedCaches |-> NoEntry], look |-> NoLookup]

---------------------------------------------------------------------------
(* VisualTestDisplayManager: the canvas and the call tracking *)

(* the canvas, width x height pixels *)
Width == 2
Height == 2
Pixels == (0 .. Width - 1) \X (0 .. Height - 1)

Black == <<0, 0, 0>>
Colors == {Black, <<255, 255, 255>>, <<0, 0, 255>>}

(* Image.new('RGB', (width, height), (0, 0, 0)) *)
NewImage == [p \in Pixels |-> Black]

(* draw_calls recorded by one manager *)
MaxDrawCalls == 2

(* __init__, lines 54-82 *)
Fresh ==
    [image |-> NewImage,
     scrolling_state |-> [is_scrolling |-> FALSE, last_scroll_activity |-> 0],
     clear_called |-> FALSE, update_called |-> FALSE, draw_calls |-> <<>>]

(* the manager's fields as a reset() finds them *)
Snapshot(v) == [f \in DOMAIN Fresh |-> v[f]]

(* op is the method called last, pre what the last reset() found *)
VdmInit ==
    [op |-> "__init__", pre |-> Fresh, image |-> Fresh.image,
     scrolling_state |-> Fresh.scrolling_state, clear_called |-> FALSE,
     update_called |-> FALSE, draw_calls |-> <<>>]

IsCurrentlyScrolling(v) == v.scrolling_state.is_scrolling

---------------------------------------------------------------------------
(* _http_get_with_retries: one GET request under the shared retry policy *)

max_retries == 3

(* backoff_sec, 0.75 s, in hundredths of a second *)
backoff_sec == 75

(* what one requests.get call ends with: a response of some status, an    *)
(* exception derived from requests.RequestException, or another exception *)
Responses == {"200", "403 rate limit", "404", "500"}

RequestExceptions == {"ConnectionError", "Timeout", "InvalidURL"}

NoRequest ==
    [outcomes |-> <<>>, attempts |-> 0, slept |-> <<>>, resp |-> None, last_exc |-> None,
     raised |-> None]

(* faulty variant: the wait is taken after the last attempt as well *)
HttpGetWithRetriesAlwaysWaiting(outcomes, attempt, h) ==
    LET RECURSIVE Try(_, _)
        Try(a, g) ==
            IF a > max_retries THEN [g EXCEPT !.raised = g.last_exc]
            ELSE IF outcomes[a] \in Responses
            THEN [g EXCEPT !.attempts = a, !.resp = outcomes[a]]
            ELSE IF outcomes[a] \in RequestExceptions
            THEN Try(a + 1, [g EXCEPT !.attempts = a, !.last_exc = outcomes[a],
                                      !.slept = Append(@, backoff_sec * a)])
            ELSE [g EXCEPT !.attempts = a, !.raised = outcomes[a]]
    IN Try(attempt, h)

(* lines 372-389, from the attempt given on; outcomes[a] is what the a-th  *)
(* requests.get call ends with                                             *)
RECURSIVE HttpGetWithRetries(_, _, _)
HttpGetWithRetries(outcomes, attempt, h) ==
    IF attempt > max_retries THEN [h EXCEPT !.raised = h.last_exc]
    ELSE IF outcomes[attempt] \in Responses
    THEN [h EXCEPT !.attempts = attempt, !.resp = outcomes[attempt]]
    ELSE IF outcomes[attempt] \in RequestExceptions
    THEN HttpGetWithRetries(outcomes, attempt + 1,
                            [h EXCEPT !.attempts = attempt, !.last_exc = outcomes[attempt],
                                      !.slept = IF attempt < max_retries
                                                THEN Append(@, backoff_sec * attempt)
                                                ELSE @])
    ELSE [h EXCEPT !.attempts = attempt, !.raised = outcomes[attempt]]

---------------------------------------------------------------------------
(* Callers of one manager that run install_plugin with no lock between them *)

Callers == {"c1", "c2"}

(* where a caller stands in install_plugin, and what it holds in locals *)
Caller(pc) == [pc |-> pc, branch_used |-> None, ret |-> FALSE, plugin_id |-> "A"]

---------------------------------------------------------------------------
(* The calls *)

NoCall ==
    [op |-> "none", id |-> None, ret |-> FALSE, final |-> None, branch |-> None,
     trace |-> <<>>, touched |-> {}, temps |-> {}, pre |-> EmptyRoot, raised |-> FALSE, via |-> None]

Call(op, id, r) ==
    [op |-> op, id |-> id, ret |-> r.ret, final |-> r.id, branch |-> r.branch,
     trace |-> r.w.trace, touched |-> r.w.touched, temps |-> r.w.temps, pre |-> fs, raised |-> r.raised,
     via |-> r.via]

install_plugin ==
    \E id \in Ids :
        LET r == InstallPlugin(World(fs), id, env.reqBranch)
        IN /\ fs' = r.w.fs
           /\ last' = Call("install_plugin", id, r)
           /\ UNCHANGED <<env, net, vdm, procs, http>>

install_from_url ==
    \E id \in Ids \cup {None} :
        LET r == InstallFromUrl(World(fs), env.regUrl, id, env.subpath, env.reqBranch)
        IN /\ fs' = r.w.fs
           /\ last' = Call("install_from_url", id, r)
           /\ UNCHANGED <<env, net, vdm, procs, http>>

update_plugin ==
    \E id \in Ids :
        LET r == UpdatePlugin(World(fs), id)
        IN /\ fs' = r.w.fs
           /\ last' = Call("update_plugin", id, r)
           /\ UNCHANGED <<env, net, vdm, procs, http>>

uninstall_plugin ==
    \E id \in Ids :
        LET r == UninstallPlugin(World(fs), id)
        IN /\ fs' = r.w.fs
           /\ last' = Call("uninstall_plugin", id, r)
           /\ UNCHANGED <<env, net, vdm, procs, http>>

Init ==
    /\ env \in InstallEnvs
    /\ fs \in InstallRoots
    /\ last = NoCall
    /\ net = NetInit
    /\ vdm = VdmInit
    /\ procs = [c \in Callers |-> Caller("done")]
    /\ http = NoRequest

Next ==
    \/ install_plugin
    \/ install_from_url
    \/ uninstall_plugin

Spec == Init /\ [][Next]_vars

InitUpdate ==
    /\ env \in UpdateEnvs
    /\ fs \in UpdateRoots
    /\ last = NoCall
    /\ net = NetInit
    /\ vdm = VdmInit
    /\ procs = [c \in Callers |-> Caller("done")]
    /\ http = NoRequest

NextUpdate ==
    \/ update_plugin
    \/ uninstall_plugin

SpecUpdate == InitUpdate /\ [][NextUpdate]_vars

(* a manager configured with a directory other than plugins/: a plugin can *)
(* have a copy in either directory, owned by the user or by root           *)
Copies(id) ==
    {Absent} \cup {[Installed(id, "0") EXCEPT !.perm = pm] : pm \in {"rw", "ro", "root"}}

UninstallRoots ==
    {[EmptyRoot EXCEPT !["A"] = a, ![Std("A")] = sa, !["B"] = b] :
        a \in Copies("A"), sa \in Copies("A"), b \in Copies("B")}

InitUninstall ==
    /\ env \in {[NominalEnv EXCEPT !.sudo = su] : su \in BOOLEAN}
    /\ fs \in UninstallRoots
    /\ last = NoCall
    /\ net = NetInit
    /\ vdm = VdmInit
    /\ procs = [c \in Callers |-> Caller("done")]
    /\ http = NoRequest

NextUninstall == uninstall_plugin

SpecUninstall == InitUninstall /\ [][NextUninstall]_vars

---------------------------------------------------------------------------
(* Cached lookups *)

(* a JSON document that is a list: json() accepts it, .get() does not *)
ListDocument == "[...]"

RegistryResponses == {Catalog, EmptyObject, ListDocument, "http_error", "bad_json"}

(* fetch_registry, lines 455-475; plugins is the list object held under    *)
(* 'plugins' by the dictionary in registry_cache                           *)
FetchRegistry(n, force_refresh, response) ==
    LET before == Entry(n.registry_cache_time, n.registry_cache)
    IN IF /\ DocTruthy(n.registry_cache)
          /\ n.registry_cache_time # 0
          /\ ~force_refresh
          /\ (Now - n.registry_cache_time) < registry_cache_timeout
       THEN [n EXCEPT !.look = Lookup("fetch_registry", force_refresh, None, TRUE, FALSE,
                                      n.registry_cache, FALSE, before)]
       ELSE IF response \in {Catalog, EmptyObject}
       THEN [n EXCEPT !.registry_cache = response, !.registry_cache_time = Now,
                      !.plugins = IF response = Catalog THEN <<"official">> ELSE <<>>,
                      !.look = Lookup("fetch_registry", force_refresh, response, FALSE, TRUE,
                                      response, FALSE, before)]
       ELSE IF response = ListDocument
       THEN [n EXCEPT !.registry_cache = response, !.registry_cache_time = Now,
                      !.plugins = <<>>,
                      !.look = Lookup("fetch_registry", force_refresh, response, FALSE, TRUE,
                                      None, TRUE, before)]
       ELSE [n EXCEPT !.look = Lookup("fetch_registry", force_refresh, response, FALSE, TRUE,
                                      EmptyCatalog, FALSE, before)]

(* faulty variant: an entry is still served at the age of its time-to-live *)
CacheHitAtTimeout(entry, timeout, forced) ==
    /\ entry # NoEntry
    /\ ~forced
    /\ Now - entry.time <= timeout

(* cache_key in cache, and time.time() - cached_time < timeout *)
CacheHit(entry, timeout, forced) ==
    /\ entry # NoEntry
    /\ ~forced
    /\ Now - entry.time < timeout

(* the lookup pattern the four keyed caches share: serve a fresh entry,    *)
(* else ask the network and store what the function decides to keep        *)
KeyedLookup(n, cache, op, forced, response, stored, result) ==
    LET before == n.keyed[cache]
    IN IF CacheHit(before, Timeout(cache), forced)
       THEN [n EXCEPT !.look = Lookup(op, forced, None, TRUE, FALSE, before.data, FALSE,
                                      before)]
       ELSE [n EXCEPT !.keyed[cache] = IF stored THEN Entry(Now, result) ELSE @,
                      !.look = Lookup(op, forced, response, FALSE, TRUE, result, FALSE,
                                      before)]

(* a call that returns before it looks at any cache *)
Bypass(n, op, forced, result) ==
    [n EXCEPT !.look = [Lookup(op, forced, None, FALSE, FALSE, result, FALSE, NoEntry)
                            EXCEPT !.bypass = TRUE]]

(* _get_github_repo_info, lines 279-370: only a 200 answer is stored *)
GetGithubRepoInfo(n, is_github, response) ==
    IF ~is_github THEN Bypass(n, "_get_github_repo_info", FALSE, "defaults")
    ELSE KeyedLookup(n, "github_cache", "_get_github_repo_info", FALSE, response,
                     response = "200", IF response = "200" THEN "repo_info" ELSE "defaults")

(* the result built at lines 690-698 for the branch that answered 200 *)
CommitOn(branch_name) ==
    IF branch_name = "dev" THEN "commit on dev"
    ELSE IF branch_name = "main" THEN "commit on main"
    ELSE IF branch_name = "master" THEN "commit on master"
    ELSE "commit"

(* the index of the first branch of a list that the remote has (present)   *)
(* or lacks (~present), or 0                                               *)
FirstIndexWhere(seq, heads, present) ==
    IF \E i \in 1..Len(seq) : (seq[i] \in heads) = present
    THEN CHOOSE i \in 1..Len(seq) :
             /\ (seq[i] \in heads) = present
             /\ \A j \in 1..(i - 1) : (seq[j] \in heads) # present
    ELSE 0

(* faulty variant: a call whose branches all fail stores nothing *)
GetLatestCommitInfoNoNegative(n, is_github, force_refresh, branch, heads, failure) ==
    LET branches_to_try == DistinctSequence(<<branch, "main", "master">>)
        ok == FirstIndexWhere(branches_to_try, heads, TRUE)
        bad == FirstIndexWhere(branches_to_try, heads, FALSE)
        raises == failure = "exception" /\ bad # 0 /\ (ok = 0 \/ bad < ok)
        last_request == IF raises THEN bad ELSE IF ok # 0 THEN ok ELSE Len(branches_to_try)
        r == KeyedLookup(n, "commit_info_cache", "_get_latest_commit_info", force_refresh,
                         IF raises \/ ok = 0 THEN failure ELSE "200",
                         ~raises /\ ok # 0,
                         IF ~raises /\ ok # 0 THEN CommitOn(branches_to_try[ok]) ELSE None)
    IN IF ~is_github THEN Bypass(n, "_get_latest_commit_info", force_refresh, None)
       ELSE [r EXCEPT !.look.asked = IF r.look.fetched
                                     THEN SubSeq(branches_to_try, 1, last_request)
                                     ELSE <<>>,
                      !.look.heads = IF r.look.fetched THEN heads ELSE {}]

(* _get_latest_commit_info, lines 642-715: the branches are asked in turn; *)
(* the first 200 answer is stored and returned; None is stored when no     *)
(* branch answers 200, whatever the other answers were; an exception ends  *)
(* the call with nothing stored.  heads are the branches that answer 200,  *)
(* failure is what asking for any other branch ends with.                  *)
GetLatestCommitInfo(n, is_github, force_refresh, branch, heads, failure) ==
    LET branches_to_try == DistinctSequence(<<branch, "main", "master">>)
        ok == FirstIndexWhere(branches_to_try, heads, TRUE)
        bad == FirstIndexWhere(branches_to_try, heads, FALSE)
        raises == failure = "exception" /\ bad # 0 /\ (ok = 0 \/ bad < ok)
        last_request == IF raises THEN bad ELSE IF ok # 0 THEN ok ELSE Len(branches_to_try)
        r == KeyedLookup(n, "commit_info_cache", "_get_latest_commit_info", force_refresh,
                         IF raises \/ ok = 0 THEN failure ELSE "200",
                         ~raises,
                         IF ~raises /\ ok # 0 THEN CommitOn(branches_to_try[ok]) ELSE None)
    IN IF ~is_github THEN Bypass(n, "_get_latest_commit_info", force_refresh, None)
       ELSE [r EXCEPT !.look.asked = IF r.look.fetched
                                     THEN SubSeq(branches_to_try, 1, last_request)
                                     ELSE <<>>,
                      !.look.heads = IF r.look.fetched THEN heads ELSE {}]

(* _fetch_manifest_from_github, lines 583-640: response is what the last  *)
(* request of the call ends with (the branch asked for, or main after a    *)
(* 404); whatever is not a 200 answer stores None, an exception nothing    *)
FetchManifestFromGithub(n, is_github, force_refresh, response) ==
    IF ~is_github THEN Bypass(n, "_fetch_manifest_from_github", force_refresh, None)
    ELSE KeyedLookup(n, "manifest_cache", "_fetch_manifest_from_github", force_refresh,
                     response, response # "exception",
                     IF response = "200" THEN "manifest" ELSE None)

TokenResponses == {"200", "401", "403 rate limit", "403", "500", "exception"}

(* _validate_github_token, lines 87-167: rate limits, timeouts and other   *)
(* exceptions are not stored                                               *)
ValidateGithubToken(n, has_token, response) ==
    IF ~has_token THEN Bypass(n, "_validate_github_token", FALSE, "no token")
    ELSE KeyedLookup(n, "token_validation_cache", "_validate_github_token", FALSE, response,
                     response \notin {"403 rate limit", "exception"},
                     IF response = "200" THEN "valid" ELSE "invalid")

fetch_registry ==
    \E force_refresh \in BOOLEAN, response \in RegistryResponses :
        /\ net.calls < MaxCalls
        /\ net' = [FetchRegistry(net, force_refresh, response) EXCEPT !.calls = @ + 1]
        /\ UNCHANGED <<fs, env, last, vdm, procs, http>>

get_github_repo_info ==
    \E is_github \in BOOLEAN,
       response \in {"200", "403", "403 rate limit", "404", "exception"} :
        /\ net.calls < MaxCalls
        /\ net' = [GetGithubRepoInfo(net, is_github, response) EXCEPT !.calls = @ + 1]
        /\ UNCHANGED <<fs, env, last, vdm, procs, http>>

get_latest_commit_info ==
    \E is_github \in BOOLEAN, force_refresh \in BOOLEAN,
       heads \in {{}, {"master"}, {"main", "master"}, {"dev"}},
       failure \in {"404", "403 rate limit", "exception"} :
        /\ net.calls < MaxCalls
        /\ net' = [GetLatestCommitInfo(net, is_github, force_refresh, env.reqBranch, heads,
                                       failure) EXCEPT !.calls = @ + 1]
        /\ UNCHANGED <<fs, env, last, vdm, procs, http>>

fetch_manifest_from_github ==
    \E is_github \in BOOLEAN, force_refresh \in BOOLEAN,
       response \in {"200", "404", "403 rate limit", "exception"} :
        /\ net.calls < MaxCalls
        /\ net' = [FetchManifestFromGithub(net, is_github, force_refresh, response) EXCEPT !.calls = @ + 1]
        /\ UNCHANGED <<fs, env, last, vdm, procs, http>>

validate_github_token ==
    \E has_token \in BOOLEAN, response \in TokenResponses :
        /\ net.calls < MaxCalls
        /\ net' = [ValidateGithubToken(net, has_token, response) EXCEPT !.calls = @ + 1]
        /\ UNCHANGED <<fs, env, last, vdm, procs, http>>

(* time passes to the next observed instant *)
Tick ==
    /\ net.tick < Len(Instants)
    /\ net' = [net EXCEPT !.tick = @ + 1]
    /\ UNCHANGED <<fs, env, last, vdm, procs, http>>

InitCache ==
    /\ env \in {[NominalEnv EXCEPT !.reqBranch = branch] : branch \in {"main", "dev"}}
    /\ fs = EmptyRoot
    /\ last = NoCall
    /\ net = NetInit
    /\ vdm = VdmInit
    /\ procs = [c \in Callers |-> Caller("done")]
    /\ http = NoRequest

NextCache ==
    \/ fetch_registry
    \/ get_github_repo_info
    \/ get_latest_commit_info
    \/ fetch_manifest_from_github
    \/ validate_github_token
    \/ Tick

SpecCache == InitCache /\ [][NextCache]_vars

---------------------------------------------------------------------------
(* VisualTestDisplayManager: the methods *)

(* draw_text: the call is tracked, then the glyphs are drawn at (x, y) in  *)
(* the colour given; a drawing error is logged and leaves the canvas.      *)
(* The text is one pixel wide and high here.                               *)
draw_text ==
    \E x \in 0 .. Width, y \in 0 .. Height, color \in Colors, drawn \in BOOLEAN :
        /\ Len(vdm.draw_calls) < MaxDrawCalls
        /\ vdm' = [vdm EXCEPT !.op = "draw_text", !.pre = Fresh,
                              !.draw_calls = Append(@, "text"),
                              !.image = [p \in Pixels |->
                                            IF drawn /\ p = <<x, y>> THEN color ELSE @[p]]]
        /\ UNCHANGED <<fs, env, last, net, procs, http>>

(* draw_image: the call is tracked, then the image is pasted with its top  *)
(* left corner at (x, y); what falls outside the canvas is clipped.  The   *)
(* image is as large as the canvas and of one colour here.                 *)
draw_image ==
    \E x \in 0 .. Width, y \in 0 .. Height, color \in Colors :
        /\ Len(vdm.draw_calls) < MaxDrawCalls
        /\ vdm' = [vdm EXCEPT !.op = "draw_image", !.pre = Fresh,
                              !.draw_calls = Append(@, "image"),
                              !.image = [p \in Pixels |->
                                            IF p[1] >= x /\ p[2] >= y THEN color ELSE @[p]]]
        /\ UNCHANGED <<fs, env, last, net, procs, http>>

clear ==
    /\ vdm' = [vdm EXCEPT !.op = "clear", !.pre = Fresh, !.clear_called = TRUE,
                          !.image = NewImage]
    /\ UNCHANGED <<fs, env, last, net, procs, http>>

update_display ==
    /\ vdm' = [vdm EXCEPT !.op = "update_display", !.pre = Fresh, !.update_called = TRUE]
    /\ UNCHANGED <<fs, env, last, net, procs, http>>

set_scrolling_state ==
    \E is_scrolling \in BOOLEAN :
        /\ vdm' = [vdm EXCEPT !.op = "set_scrolling_state", !.pre = Fresh,
                              !.scrolling_state.is_scrolling = is_scrolling,
                              !.scrolling_state.last_scroll_activity =
                                  IF is_scrolling THEN Now ELSE @]
        /\ UNCHANGED <<fs, env, last, net, procs, http>>

(* faulty variant: only the call tracking is reset *)
ResetTrackingOnly(v) ==
    [v EXCEPT !.op = "reset", !.pre = Snapshot(v), !.clear_called = FALSE,
              !.update_called = FALSE, !.draw_calls = <<>>]

Reset(v) ==
    [v EXCEPT !.op = "reset", !.pre = Snapshot(v), !.clear_called = FALSE,
              !.update_called = FALSE, !.draw_calls = <<>>, !.image = NewImage,
              !.scrolling_state = Fresh.scrolling_state]

reset ==
    /\ vdm' = Reset(vdm)
    /\ UNCHANGED <<fs, env, last, net, procs, http>>

InitVdm ==
    /\ env = NominalEnv
    /\ fs = EmptyRoot
    /\ last = NoCall
    /\ net = NetInit
    /\ vdm = VdmInit
    /\ procs = [c \in Callers |-> Caller("done")]
    /\ http = NoRequest

NextVdm ==
    \/ draw_text
    \/ draw_image
    \/ clear
    \/ update_display
    \/ set_scrolling_state
    \/ reset

SpecVdm == InitVdm /\ [][NextVdm]_vars

---------------------------------------------------------------------------
(* install_plugin as its callers interleave.  A caller takes the steps of  *)
(* the method one at a time: the removal of the directory already there    *)
(* (lines 830-835), the acquisition (837-864), the manifest checks with    *)
(* the rename (866-937), and, once pip has run, the return (939-946).      *)
(* Other calls on the same manager happen between the steps.               *)
install_plugin_step ==
    \E c \in Callers :
        LET p == procs[c]
            w == World(fs)
        IN /\ p.pc # "done"
           /\ IF p.pc = "remove"
              THEN LET rm == RemoveExisting(w, "A")
                   IN /\ fs' = rm.w.fs
                      /\ procs' = [procs EXCEPT ![c].pc = IF rm.ok THEN "acquire" ELSE "return"]
                      /\ last' = last
              ELSE IF p.pc = "acquire"
              THEN LET a == Acquire(w, "A", BranchCandidates(env.reqBranch))
                       failed == a.ret = None /\ (env.subpath \/ ~Exists(a.w, "A"))
                   IN /\ fs' = a.w.fs
                      /\ procs' = [procs EXCEPT ![c].pc = IF failed THEN "return" ELSE "validate",
                                                ![c].branch_used = a.ret]
                      /\ last' = last
              ELSE IF p.pc = "validate"
              THEN LET r == ValidateInstalled(w, "A", p.branch_used)
                   IN /\ fs' = r.w.fs
                      /\ procs' = [procs EXCEPT ![c].pc = "return", ![c].ret = r.ret,
                                                ![c].plugin_id = r.id]
                      /\ last' = last
              ELSE /\ fs' = fs
                   /\ procs' = [procs EXCEPT ![c].pc = "done"]
                   /\ last' = Call("install_plugin", "A",
                                   Result(w, p.ret, p.plugin_id, p.branch_used))
           /\ UNCHANGED <<env, net, vdm, http>>

InitRace ==
    /\ env \in {[NominalEnv EXCEPT !.gitAvail = g, !.subpath = s, !.regVersion = rv,
                                   !.bundle = GoodBundle(id)] :
                    g \in BOOLEAN, s \in BOOLEAN, rv \in {"0", "1"}, id \in Ids}
    /\ fs \in {EmptyRoot, [EmptyRoot EXCEPT !["A"] = Installed("A", "0")]}
    /\ last = NoCall
    /\ net = NetInit
    /\ vdm = VdmInit
    /\ procs = [c \in Callers |-> Caller("remove")]
    /\ http = NoRequest

NextRace ==
    \/ install_plugin_step
    \/ uninstall_plugin
    \/ update_plugin

SpecRace == InitRace /\ [][NextRace]_vars

---------------------------------------------------------------------------
http_get_with_retries ==
    \E outcomes \in [1..max_retries -> Responses \cup RequestExceptions \cup {"ValueError"}] :
        /\ http' = HttpGetWithRetries(outcomes, 1, [NoRequest EXCEPT !.outcomes = outcomes])
        /\ UNCHANGED <<fs, env, last, net, vdm, procs>>

InitHttp ==
    /\ env = NominalEnv
    /\ fs = EmptyRoot
    /\ last = NoCall
    /\ net = NetInit
    /\ vdm = VdmInit
    /\ procs = [c \in Callers |-> Caller("done")]
    /\ http = NoRequest

SpecHttp == InitHttp /\ [][http_get_with_retries]_vars

---------------------------------------------------------------------------
(* lines 541-580 and 739-771: the GitHub lookups that enrich the copy of a *)
(* plugin descriptor                                                       *)
Enrich(n, fetch_commit_info, force_refresh, repo_response, heads, manifest_response) ==
    LET info == GetGithubRepoInfo(n, TRUE, repo_response)
        commit == GetLatestCommitInfo(info, TRUE, force_refresh, env.reqBranch, heads, "404")
    IN IF fetch_commit_info
       THEN FetchManifestFromGithub(commit, TRUE, force_refresh, manifest_response)
       ELSE info

(* search_plugins, lines 477-582.  custom are the plugins the saved        *)
(* repositories serve (none when they are not consulted); the list they    *)
(* are appended to is the cached catalog's own list unless that list is    *)
(* empty or the registry could not be fetched.                             *)
search_plugins ==
    \E response \in RegistryResponses, custom \in {<<>>, <<"custom">>},
       fetch_commit_info \in BOOLEAN, repo_response \in {"200", "404"},
       heads \in {{}, {"main", "master"}}, manifest_response \in {"200", "404"} :
        LET registry == FetchRegistry(net, FALSE, response)
            cached == registry.look.result = registry.registry_cache /\ registry.plugins # <<>>
            merged == IF cached THEN [registry EXCEPT !.plugins = @ \o custom] ELSE registry
            results == IF cached THEN merged.plugins ELSE custom
        IN /\ net.calls < MaxCalls
           /\ net' = [(IF registry.look.raised \/ results = <<>> THEN merged
                       ELSE Enrich(merged, fetch_commit_info, FALSE, repo_response, heads,
                                   manifest_response))
                         EXCEPT !.calls = @ + 1]
           /\ UNCHANGED <<fs, env, last, vdm, procs, http>>

(* get_plugin_info, lines 718-773: the descriptor found is copied before   *)
(* it is enriched                                                          *)
get_plugin_info ==
    \E response \in RegistryResponses, fetch_latest_from_github \in BOOLEAN,
       force_refresh \in BOOLEAN, repo_response \in {"200", "404"},
       heads \in {{}, {"main", "master"}}, manifest_response \in {"200", "404"} :
        LET registry == FetchRegistry(net, FALSE, response)
        IN /\ net.calls < MaxCalls
           /\ net' = [(IF registry.look.raised \/ registry.plugins = <<>>
                          \/ registry.look.result # registry.registry_cache
                          \/ ~fetch_latest_from_github
                       THEN registry
                       ELSE Enrich(registry, TRUE, force_refresh, repo_response, heads,
                                   manifest_response))
                         EXCEPT !.calls = @ + 1]
           /\ UNCHANGED <<fs, env, last, vdm, procs, http>>

SpecSearch == InitCache /\ [][search_plugins \/ get_plugin_info \/ fetch_registry \/ Tick]_vars

---------------------------------------------------------------------------
(* Properties *)

AcquisitionEvents == {"git", "gitdefault", "api", "zip", "mzip", "traversal", "zipslip"}

Attempts(trace) == SelectSeq(trace, LAMBDA e : e.ev \in AcquisitionEvents)

Installs == {"install_plugin", "install_from_url"}

(* C1: after every successful install_plugin or install_from_url the final *)
(* directory's name equals the id of the manifest stored in it.            *)
C1_NamingInvariant ==
    (last.op \in Installs /\ last.ret) =>
        /\ fs[last.final].exists
        /\ fs[last.final].manifest.id = last.final

(* the same for install_plugin alone *)
C1_NamingInstallPlugin ==
    (last.op = "install_plugin" /\ last.ret) =>
        /\ fs[last.final].exists
        /\ fs[last.final].manifest.id = last.final

(* C2: a failed install_plugin leaves nothing it wrote at the requested    *)
(* path nor at the manifest-derived path.                                  *)
C2_FailureLeavesNothing ==
    (last.op = "install_plugin" /\ ~last.ret) =>
        \A p \in {last.id, env.bundle.manifest.id} \cap Ids : p \notin last.touched

(* C3: an entry resolving outside the target or scratch directory aborts   *)
(* the whole install: it fails, the detection is the last acquisition step *)
(* and nothing written by the call is left.                                *)
C3_TraversalAbortsInstall ==
    \A i \in 1..Len(last.trace) :
        (last.op \in Installs /\ last.trace[i].ev \in {"traversal", "zipslip"}) =>
            /\ ~last.ret
            /\ \A j \in (i + 1)..Len(last.trace) : last.trace[j].ev \notin AcquisitionEvents
            /\ last.touched = {}

(* C4: with the remote unchanged, running install_plugin again for the     *)
(* same id leaves the plugins root exactly as the first run left it.       *)
C4_InstallIdempotent ==
    last.op = "install_plugin" =>
        InstallPlugin(World(fs), last.id, env.reqBranch).w.fs = fs

C4_Witness ==
    /\ last.op = "install_plugin"
    /\ last.ret
    /\ last.final # last.id
    /\ last.pre[last.final].exists

LocalShaIsPrefix(d) ==
    /\ d.vcs.sha # <<>>
    /\ env.regSha # <<>>
    /\ IsPrefix(d.vcs.sha, env.regSha)

SameSource(d) ==
    \/ d.vcs.url = NoUrl
    \/ env.regUrl = NoUrl
    \/ NormalizeRepoUrl(d.vcs.url) = NormalizeRepoUrl(env.regUrl)

(* C5: for a git checkout whose commit sha, read through git, is a prefix   *)
(* of the sha the registry reports, update_plugin succeeds without touching *)
(* the directory.                                                           *)
C5_UpdateNoOp ==
    (/\ last.op = "update_plugin"
     /\ last.pre[last.id].vcs.git
     /\ env.found
     /\ env.gitAvail
     /\ LocalShaIsPrefix(last.pre[last.id])) =>
        /\ last.ret
        /\ fs = last.pre
        /\ last.trace = <<>>

(* C5 amended: the same, provided the local origin URL matches the         *)
(* registry's repository URL after normalisation.                          *)
C5_UpdateNoOpSameSource ==
    (/\ last.op = "update_plugin"
     /\ last.pre[last.id].vcs.git
     /\ env.found
     /\ env.gitAvail
     /\ SameSource(last.pre[last.id])
     /\ LocalShaIsPrefix(last.pre[last.id])) =>
        /\ last.ret
        /\ fs = last.pre
        /\ last.trace = <<>>

C5_Witness ==
    /\ last.op = "update_plugin"
    /\ last.pre[last.id].vcs.git
    /\ last.pre[last.id].vcs.mods
    /\ last.pre[last.id].marker
    /\ env.found
    /\ env.gitAvail
    /\ env.regUrl # last.pre[last.id].vcs.url
    /\ SameSource(last.pre[last.id])
    /\ LocalShaIsPrefix(last.pre[last.id])
    /\ last.ret

(* C6: a failed update_plugin leaves the plugin directory absent or as it  *)
(* was before the call.                                                    *)
C6_FailedUpdateLeavesPriorState ==
    (last.op = "update_plugin" /\ ~last.ret) =>
        \/ ~fs[last.id].exists
        \/ fs[last.id] = last.pre[last.id]

Position(seq, x) == CHOOSE i \in 0..Len(seq) : (i > 0 /\ seq[i] = x) \/ (i = 0 /\ \A j \in 1..Len(seq) : seq[j] # x)

(* C7: with candidates <<b1, b2, main, master>> of which only master       *)
(* exists, install_plugin tries them in order, succeeds through master and *)
(* reports master; in every install_plugin call a successful acquisition   *)
(* step is the last one.                                                   *)
C7_BranchFallback ==
    LET at == Attempts(last.trace)
        n == Len(at)
        candidates == BranchCandidates(env.reqBranch)
    IN last.op = "install_plugin" =>
        /\ \A i \in 1..n : at[i].ok => i = n
        /\ \A i, j \in 1..n :
              (i < j /\ at[i].ev = at[j].ev) =>
                  Position(candidates, at[i].arg) < Position(candidates, at[j].arg)
        /\ (/\ candidates = <<"b1", "b2", "main", "master">>
            /\ env.exists = {"master"}
            /\ env.found
            /\ (env.subpath \/ env.gitAvail \/ env.zipOk)
            /\ n > 0) =>
               /\ at[n].ok
               /\ at[n].arg = "master"
               /\ \A k \in 1..3 : \E i \in 1..(n - 1) :
                     at[i].ev = at[n].ev /\ at[i].arg = candidates[k] /\ ~at[i].ok
               /\ last.ret
               /\ last.branch = "master"

C7_Witness ==
    /\ last.op = "install_plugin"
    /\ BranchCandidates(env.reqBranch) = <<"b1", "b2", "main", "master">>
    /\ env.exists = {"master"}
    /\ ~env.gitAvail
    /\ ~env.subpath
    /\ last.ret
    /\ last.branch = "master"
    /\ Len(Attempts(last.trace)) = 9

(* C8: above the ceiling of 500 files the partial-tree strategy gives up   *)
(* before writing anything, the archive strategy follows for the same      *)
(* branch, and when the archive is served the directory is complete.       *)
C8_SizeGuardFallsThrough ==
    (/\ last.op = "install_plugin"
     /\ env.subpath
     /\ env.bundle.nfiles > max_files) =>
        /\ \A i \in 1..Len(last.trace) :
              last.trace[i].ev # "traversal"
              /\ (last.trace[i].ev = "api" =>
                    /\ ~last.trace[i].ok
                    /\ last.trace[i].n = 0
                    /\ i < Len(last.trace)
                    /\ last.trace[i + 1].ev \in {"mzip", "zipslip"}
                    /\ last.trace[i + 1].arg = last.trace[i].arg)
        /\ (/\ env.found
            /\ env.zipOk
            /\ env.bundle.ups <= 1 + SubDepth
            /\ Attempts(last.trace) # <<>>) =>
               /\ last.ret
               /\ fs[last.final] = BundleDir(env.bundle)

C8_Witness ==
    /\ last.op = "install_plugin"
    /\ env.subpath
    /\ env.apiMode = "ok"
    /\ env.bundle.nfiles > max_files
    /\ last.ret
    /\ fs[last.final].nfiles > max_files
    /\ last.final # last.id

FromBundleOnly(d) ==
    /\ d.exists
    /\ ~d.marker
    /\ d.perm = "rw"
    /\ d.meta = "none"
    /\ d.nfiles = env.bundle.nfiles
    /\ d.manifest.version = env.bundle.manifest.version

FirstAttempt(trace) == CHOOSE i \in 1..Len(trace) :
    trace[i].ev \in AcquisitionEvents /\ \A j \in 1..(i - 1) : trace[j].ev \notin AcquisitionEvents

(* C9: in install_plugin and install_from_url a directory occupying the    *)
(* target id is removed before acquisition begins; a failed removal ends   *)
(* the install without any acquisition; a successful install holds only    *)
(* the new bundle.                                                         *)
C9_RemovedBeforeAcquisition ==
    LET target == IF last.op = "install_plugin" THEN last.id ELSE last.final
    IN (last.op \in Installs /\ target \in Ids /\ last.pre[target].exists) =>
        /\ Attempts(last.trace) # <<>> =>
              \E i \in 1..(FirstAttempt(last.trace) - 1) :
                  last.trace[i].ev = "rm" /\ last.trace[i].arg = target
        /\ (\E i \in 1..Len(last.trace) :
               last.trace[i].ev = "rm" /\ last.trace[i].arg = target /\ ~last.trace[i].ok) =>
              ~last.ret /\ Attempts(last.trace) = <<>>
        /\ last.ret => FromBundleOnly(fs[last.final])

(* C9 amended: install_plugin removes the directory at the requested id    *)
(* before acquisition and stops without acquisition when that fails;       *)
(* install_from_url acquires into a scratch directory and removes the      *)
(* directory at the final id just before the move, failing with that       *)
(* directory untouched when the removal fails; after either succeeds the   *)
(* final directory holds only the new bundle.                              *)
C9_NeverMerges ==
    /\ (last.op = "install_plugin" /\ env.found /\ last.pre[last.id].exists) =>
          /\ last.trace # <<>>
          /\ last.trace[1].ev = "rm"
          /\ last.trace[1].arg = last.id
          /\ ~last.trace[1].ok => (~last.ret /\ Len(last.trace) = 1 /\ fs = last.pre)
    /\ (last.op = "install_from_url" /\ last.final \in Ids /\ last.pre[last.final].exists) =>
          \A i \in 1..Len(last.trace) :
              (last.trace[i].ev = "rm" /\ last.trace[i].arg = last.final) =>
                  /\ \A j \in (i + 1)..Len(last.trace) : last.trace[j].ev \notin AcquisitionEvents
                  /\ ~last.trace[i].ok => (~last.ret /\ fs = last.pre)
    /\ (last.op \in Installs /\ last.ret) => FromBundleOnly(fs[last.final])

C9_WitnessInstallPlugin ==
    /\ last.op = "install_plugin"
    /\ last.pre[last.id].exists
    /\ last.pre[last.id].marker
    /\ last.ret
    /\ last.final = last.id
    /\ env.subpath

C9_Witness ==
    /\ last.op = "install_from_url"
    /\ last.ret
    /\ last.pre[last.final].exists
    /\ last.pre[last.final].marker

Present(b, f) == b.mstate = "ok" /\ b.manifest[f] # None

Derivable(b) == b.entry /\ DetectClassName(b.classes) # None

Acceptable(b) ==
    /\ Present(b, "id")
    /\ Present(b, "name")
    /\ Present(b, "display_modes")
    /\ (Present(b, "class_name") \/ Derivable(b))

Acquired(trace) == \E i \in 1..Len(trace) : trace[i].ev \in AcquisitionEvents /\ trace[i].ok

RemovalFailed(trace) == \E i \in 1..Len(trace) : trace[i].ev = "rm" /\ ~trace[i].ok

(* C10: an install succeeds only with id, name, class_name and             *)
(* display_modes in the manifest, class_name being derived from the entry  *)
(* point when missing: a derivable class lets the install proceed with     *)
(* class_name set, anything else missing fails it.                         *)
C10_RequiredFields ==
    last.op \in Installs =>
        /\ last.ret => Acceptable(env.bundle)
        /\ (/\ Acquired(last.trace)
            /\ ~RemovalFailed(last.trace)
            /\ Acceptable(env.bundle)
            /\ Truthy(env.bundle.manifest.id)) =>
               /\ last.ret
               /\ fs[last.final].manifest.class_name =
                     IF Present(env.bundle, "class_name") THEN env.bundle.manifest.class_name
                     ELSE DetectClassName(env.bundle.classes)

(* the same for install_plugin alone *)
C10_RequiredFieldsInstallPlugin ==
    last.op = "install_plugin" =>
        /\ last.ret => Acceptable(env.bundle)
        /\ (/\ Acquired(last.trace)
            /\ ~RemovalFailed(last.trace)
            /\ Acceptable(env.bundle)
            /\ Truthy(env.bundle.manifest.id)) =>
               /\ last.ret
               /\ fs[last.final].manifest.class_name =
                     IF Present(env.bundle, "class_name") THEN env.bundle.manifest.class_name
                     ELSE DetectClassName(env.bundle.classes)

(* C11: after a successful install the manifest file in the installed      *)
(* directory holds entry_point "manager.py" when the bundle's manifest had  *)
(* none and the bundle's value otherwise, and holds the class_name that was *)
(* detected when the bundle's manifest had none.                            *)
C11_DefaultsPersisted ==
    (last.op \in Installs /\ last.ret) =>
        LET on_disk == fs[last.final].manifest
            shipped == env.bundle.manifest
        IN /\ on_disk.entry_point = IF shipped.entry_point = None THEN "manager.py"
                                    ELSE shipped.entry_point
           /\ on_disk.class_name = IF shipped.class_name = None
                                   THEN DetectClassName(env.bundle.classes)
                                   ELSE shipped.class_name
           /\ Truthy(on_disk.class_name)

C11_Witness ==
    /\ last.op = "install_plugin"
    /\ last.ret
    /\ env.bundle.manifest.entry_point = None
    /\ env.bundle.manifest.class_name = None
    /\ fs[last.final].manifest.entry_point = "manager.py"
    /\ fs[last.final].manifest.class_name = "C"

DepsFailed(trace) == \E i \in DOMAIN trace : trace[i].ev = "deps" /\ ~trace[i].ok

(* C12: when the dependency installation fails after validation,           *)
(* install_plugin still returns success and the installed directory stays, *)
(* holding the acquired bundle.                                            *)
C12_DependencyFailureKeepsInstall ==
    (last.op = "install_plugin" /\ DepsFailed(last.trace)) =>
        /\ last.ret
        /\ fs[last.final].exists
        /\ fs[last.final].mstate = "ok"
        /\ fs[last.final].manifest.id = env.bundle.manifest.id
        /\ fs[last.final].reqs

C12_Witness ==
    /\ last.op = "install_plugin"
    /\ DepsFailed(last.trace)
    /\ ~env.depsOk
    /\ last.ret
    /\ fs[last.final].exists

RemovalEvents(trace) == SelectSeq(trace, LAMBDA e : e.ev = "rm")

(* C13: _safe_remove_directory, as uninstall_plugin calls it, answers True  *)
(* at once for an absent path; otherwise it makes one removal whose stage   *)
(* is the first that can succeed (a later stage only when every earlier one *)
(* fails); it answers True only when the path is gone afterwards, and False *)
(* with the path untouched when all three stages fail.                      *)
C13_RemovalEscalates ==
    (last.op = "uninstall_plugin") =>
        LET before == last.pre[last.id]
            rm == RemovalEvents(last.trace)
        IN /\ ~before.exists => (last.ret /\ last.trace = <<>>)
           /\ before.exists =>
                /\ Len(rm) = 1
                /\ rm[1].ok = last.ret
                /\ rm[1].ok /\ rm[1].n = 1 => Stage1Removes(before)
                /\ rm[1].ok /\ rm[1].n = 2 => ~Stage1Removes(before) /\ Stage2Removes(before)
                /\ rm[1].ok /\ rm[1].n = 3 =>
                        ~Stage1Removes(before) /\ ~Stage2Removes(before)
                /\ ~rm[1].ok => (~Stage1Removes(before) /\ ~Stage2Removes(before)
                                 /\ ~SudoRemoveDirectory(before) /\ fs = last.pre)
           /\ last.ret => ~fs[last.id].exists

C13_Witness ==
    /\ last.op = "uninstall_plugin"
    /\ last.pre[last.id].perm = "root"
    /\ last.ret
    /\ RemovalEvents(last.trace)[1].n = 3
    /\ ~fs[last.id].exists

(* C14: install_plugin, install_from_url, update_plugin and uninstall_plugin *)
(* always end with a result; no exception leaves them.                      *)
C14_NoExceptionEscapes == ~last.raised

HasDotGit(d) == d.vcs.git \/ d.vcs.url # NoUrl

Age(l) == l.now - l.before.time

Found(l) == l.before.time # 0

LookupTtl(op) ==
    IF op = "fetch_registry" THEN registry_cache_timeout
    ELSE IF op = "_get_github_repo_info" THEN cache_timeout
    ELSE IF op = "_get_latest_commit_info" THEN commit_cache_timeout
    ELSE IF op = "_fetch_manifest_from_github" THEN manifest_cache_timeout
    ELSE token_validation_cache_timeout

(* C16: fetch_registry called without force_refresh less than 300 seconds  *)
(* after the last successful fetch returns the cached catalog without a    *)
(* network request; otherwise it fetches; and a network or parse failure   *)
(* gives the empty catalog without raising.                                *)
C16_RegistryCachedFiveMinutes ==
    net.look.op = "fetch_registry" =>
        LET l == net.look
            recent == ~l.forced /\ Found(l) /\ Age(l) < 300
        IN /\ recent => l.hit /\ ~l.fetched /\ l.result = l.before.data
           /\ ~recent => l.fetched
           /\ l.response \in {"http_error", "bad_json"} =>
                  l.result = EmptyCatalog /\ ~l.raised

(* C17: in every cache an entry is served only while its age is below the  *)
(* cache's time-to-live; a lookup that finds no entry, or an entry that    *)
(* has reached the time-to-live, serves nothing from the cache and goes on *)
(* to the remote fetch, and no error arises short of the fetched answer.   *)
C17_ServedOnlyWhileFresh ==
    (net.look.op # "none" /\ ~net.look.bypass) =>
        LET l == net.look
        IN /\ l.hit => Found(l) /\ Age(l) < LookupTtl(l.op) /\ l.result = l.before.data
           /\ (~Found(l) \/ Age(l) >= LookupTtl(l.op)) => ~l.hit /\ l.fetched
           /\ l.raised => l.fetched /\ l.response = ListDocument

C17_Witness ==
    /\ net.look.op = "_get_github_repo_info"
    /\ Found(net.look)
    /\ Age(net.look) = cache_timeout
    /\ ~net.look.hit
    /\ net.look.fetched

(* the directory _find_plugin_path gave the last call *)
FoundPath(c) ==
    IF c.pre[c.id].exists THEN c.id
    ELSE IF c.pre[Std(c.id)].exists THEN Std(c.id)
    ELSE None

(* C18: uninstall_plugin returns True and changes nothing when the plugin  *)
(* is not installed; it returns True only if the plugin directory is gone  *)
(* afterwards and False when the removal failed; and a second uninstall    *)
(* gives the same result and leaves the state the first one left.          *)
C18_UninstallIdempotent ==
    last.op = "uninstall_plugin" =>
        LET path == FoundPath(last)
            again == UninstallPlugin(World(fs), last.id)
        IN /\ path = None => last.ret /\ fs = last.pre
           /\ path # None => (last.ret <=> ~fs[path].exists)
           /\ again.ret = last.ret
           /\ again.w.fs = fs

(* C20: a failed install_plugin(A) leaves the installed directory of every *)
(* other plugin id present and unchanged, also when the acquired manifest  *)
(* declares that other id and validation then fails.                       *)
C20_FailedInstallSparesOthers ==
    (last.op = "install_plugin" /\ ~last.ret) =>
        \A other \in Ids \ {last.id} :
            last.pre[other].exists => fs[other] = last.pre[other]

(* C19: after reset(), whatever was drawn, cleared, updated or set before, *)
(* clear_called and update_called are False, draw_calls is empty, every    *)
(* pixel of the canvas is black and is_currently_scrolling() is False.     *)
C19_ResetRestoresFreshState ==
    vdm.op = "reset" =>
        /\ ~vdm.clear_called
        /\ ~vdm.update_called
        /\ vdm.draw_calls = <<>>
        /\ \A p \in Pixels : vdm.image[p] = Black
        /\ ~IsCurrentlyScrolling(vdm)

C19_Witness ==
    /\ vdm.op = "reset"
    /\ vdm.pre.clear_called
    /\ vdm.pre.update_called
    /\ Len(vdm.pre.draw_calls) = MaxDrawCalls
    /\ vdm.pre.scrolling_state.is_scrolling
    /\ \E p \in Pixels : vdm.pre.image[p] # Black

(* C21: in install_plugin the directory takes the manifest's id, and any   *)
(* directory already at that id is removed, only after the required-field  *)
(* validation has passed; for a bundle that fails validation there is no   *)
(* rename and no removal of the manifest-id directory.                     *)
C21_RenameAfterValidation ==
    last.op = "install_plugin" =>
        \A i \in 1..Len(last.trace) :
            last.trace[i].ev = "rename" =>
                \E j \in 1..(i - 1) : last.trace[j].ev = "validate" /\ last.trace[j].ok

(* the dependency step comes after a successful fetch and a passed         *)
(* validation, and a successful install of a bundle with requirements has  *)
(* run it                                                                  *)
PhasesInOrder ==
    /\ \A i \in 1..Len(last.trace) :
          last.trace[i].ev = "deps" =>
              /\ \E j \in 1..(i - 1) : last.trace[j].ev \in AcquisitionEvents /\ last.trace[j].ok
              /\ \E j \in 1..(i - 1) : last.trace[j].ev = "validate" /\ last.trace[j].ok
              /\ \A j \in 1..(i - 1) : last.trace[j].ev = "validate" => last.trace[j].ok
    /\ (last.ret /\ fs[last.final].reqs) =>
          \E i \in 1..Len(last.trace) : last.trace[i].ev = "deps"

(* a failed install leaves no directory it wrote *)
RolledBack == ~last.ret => (last.touched = {} /\ ~fs[Tmp].exists)

(* C22: an install goes through fetch, validate, normalise, install        *)
(* dependencies, committed in that order: the dependency step is never     *)
(* attempted after a failed fetch or validation, success is reported only  *)
(* after the dependency step, and a failure before commit ends with the    *)
(* target directory removed.                                               *)
C22_PhaseOrderWithRollback ==
    last.op \in Installs => (PhasesInOrder /\ RolledBack)

PartialTreeEvents == {"api", "traversal"}

ArchiveEvents == {"mzip", "zipslip"}

(* the branch candidates of the last install call *)
CandidatesOf(c) ==
    IF c.op = "install_plugin" THEN BranchCandidates(env.reqBranch)
    ELSE IF Truthy(env.reqBranch) THEN DistinctSequence(<<env.reqBranch, "main", "master">>)
    ELSE <<"main", "master">>

SubpathInstall == last.op \in Installs /\ env.subpath /\ last.trace # <<>>

(* C23: with a monorepo sub-path the partial-tree strategy is attempted    *)
(* for each branch candidate in order, and the archive strategy is used    *)
(* only after the partial-tree strategy has failed for every candidate.    *)
C23_ArchiveAfterAllPartialTrees ==
    SubpathInstall =>
        \A i \in 1..Len(last.trace) :
            last.trace[i].ev \in ArchiveEvents =>
                \A k \in 1..Len(CandidatesOf(last)) :
                    \E j \in 1..(i - 1) :
                        /\ last.trace[j].ev \in PartialTreeEvents
                        /\ last.trace[j].arg = CandidatesOf(last)[k]
                        /\ ~last.trace[j].ok

(* C23 amended: the candidates are taken in order; for each one the        *)
(* partial-tree strategy is attempted first and the archive strategy for   *)
(* the same candidate when it failed; the next candidate is tried only     *)
(* after both failed, and the first success ends the acquisition.          *)
C23_PartialTreeThenArchivePerCandidate ==
    SubpathInstall =>
        LET att == Attempts(last.trace)
            cands == CandidatesOf(last)
        IN /\ Len(att) <= 2 * Len(cands)
           /\ \A n \in 1..Len(att) :
                 /\ n < Len(att) => ~att[n].ok
                 /\ n % 2 = 1 => /\ att[n].ev \in PartialTreeEvents
                                 /\ att[n].arg = cands[(n + 1) \div 2]
                 /\ n % 2 = 0 => /\ att[n].ev \in ArchiveEvents
                                 /\ att[n].arg = att[n - 1].arg
           /\ (~att[Len(att)].ok) => Len(att) = 2 * Len(cands)

C23_Witness ==
    /\ SubpathInstall
    /\ last.op = "install_plugin"
    /\ last.ret
    /\ Len(Attempts(last.trace)) >= 3
    /\ Attempts(last.trace)[2].ev \in ArchiveEvents
    /\ Attempts(last.trace)[3].ev \in PartialTreeEvents

CheckoutEvents == {"git", "gitdefault"}

DownloadEvents == {"zip", "zipslip"}

DirectInstall == last.op \in Installs /\ ~env.subpath /\ last.trace # <<>>

(* the checkout attempts of a call: one per candidate in order, stopping   *)
(* at the first success, then one unconstrained checkout if all failed     *)
CheckoutsInOrder(att, cands) ==
    LET gits == SelectSeq(att, LAMBDA e : e.ev = "git")
        defaults == SelectSeq(att, LAMBDA e : e.ev = "gitdefault")
    IN /\ Len(gits) <= Len(cands)
       /\ \A n \in 1..Len(gits) :
             /\ gits[n].arg = cands[n]
             /\ n < Len(gits) => ~gits[n].ok
       /\ Len(defaults) <= 1
       /\ Len(defaults) = 1 <=> (Len(gits) = Len(cands) /\ ~gits[Len(gits)].ok)

(* C24: without a sub-path, shallow checkouts are attempted per branch     *)
(* candidate in order, then one checkout with no branch constraint; the    *)
(* archive strategy is attempted only if every checkout attempt failed     *)
(* (git missing included), never after a checkout has populated the        *)
(* target, in install_plugin and in install_from_url.                      *)
C24_ArchiveOnlyAfterCheckoutsFailed ==
    DirectInstall =>
        LET att == Attempts(last.trace)
        IN /\ CheckoutsInOrder(att, CandidatesOf(last))
           /\ \A i \in 1..Len(att) :
                 att[i].ev \in DownloadEvents =>
                     \A j \in 1..Len(att) :
                         att[j].ev \in CheckoutEvents => (j < i /\ ~att[j].ok)

(* a directory holding a complete validated bundle under the id given *)
CompleteBundle(d, id) ==
    /\ d.exists
    /\ d.mstate = "ok"
    /\ Missing(d.manifest) = <<>>
    /\ d.manifest.id = id
    /\ d.nfiles = env.bundle.nfiles
    /\ ~d.nested

InstallReturns == \E c \in Callers : procs[c].pc = "return" /\ procs'[c].pc = "done"

(* C25: when calls for the same plugin id interleave, every install that   *)
(* returns success leaves, at the moment it returns, a directory holding a *)
(* complete validated bundle at the manifest's id.                         *)
C25_SuccessMeansCompleteBundle ==
    [][(InstallReturns /\ last'.ret) => CompleteBundle(fs'[last'.final], last'.final)]_vars

(* two URLs that differ at most by a trailing slash, ".git" or letter case *)
SameRepository(u, v) == u.base = v.base

WorktreeEvents == {"unlink", "stash", "pull"}

GitUpdateOfListed ==
    /\ last.op = "update_plugin"
    /\ last.via = "git"
    /\ env.found
    /\ last.pre[last.id].vcs.url # NoUrl
    /\ env.regUrl # NoUrl

(* C26: for a git checkout found in the registry whose origin URL differs  *)
(* from the registry's after normalisation, update_plugin removes the      *)
(* local copy and runs install_plugin instead of pulling, and returns what *)
(* the install returns; when the removal fails it returns failure without  *)
(* installing; URLs that differ only by a trailing slash, ".git" or letter *)
(* case never start the migration.                                         *)
C26_SourceMigration ==
    GitUpdateOfListed =>
        IF SameRepository(last.pre[last.id].vcs.url, env.regUrl)
        THEN /\ Attempts(last.trace) = <<>>
             /\ \A i \in 1..Len(last.trace) : last.trace[i].ev # "rm"
        ELSE /\ last.trace # <<>>
             /\ last.trace[1].ev = "rm"
             /\ last.trace[1].arg = last.id
             /\ \A i \in 1..Len(last.trace) : last.trace[i].ev \notin WorktreeEvents
             /\ IF last.trace[1].ok
                THEN /\ Attempts(last.trace) # <<>>
                     /\ last.ret <=> \E i \in 2..Len(last.trace) :
                                        last.trace[i].ev = "validate" /\ last.trace[i].ok
                ELSE /\ ~last.ret
                     /\ Len(last.trace) = 1
                     /\ fs = last.pre

C26_Witness ==
    /\ GitUpdateOfListed
    /\ ~SameRepository(last.pre[last.id].vcs.url, env.regUrl)
    /\ last.trace # <<>>
    /\ last.trace[1].ok
    /\ last.ret
    /\ fs[last.id].exists
    /\ fs[last.id] # last.pre[last.id]

PullAttempted == \E i \in 1..Len(last.trace) : last.trace[i].ev = "pull"

(* C27: in the git-based update the pull runs on a clean worktree only:    *)
(* no change was detected, or the marker files were deleted and every      *)
(* remaining modification was stashed with success before the pull.        *)
C27_PullOnlyOnCleanWorktree ==
    (last.op = "update_plugin" /\ last.via = "git" /\ PullAttempted) =>
        \/ ~last.pre[last.id].vcs.mods
        \/ \E i \in 1..Len(last.trace) :
              /\ last.trace[i].ev = "stash"
              /\ last.trace[i].ok
              /\ \E j \in (i + 1)..Len(last.trace) : last.trace[j].ev = "pull"

(* the first entry of a list of branch sources that yielded a branch *)
RECURSIVE FirstYield(_)
FirstYield(sources) ==
    IF sources = <<>> THEN None
    ELSE IF Head(sources) # None THEN Head(sources)
    ELSE FirstYield(Tail(sources))

OnRemote(branch) == IF branch \in env.exists THEN branch ELSE None

(* the sources of the branch to pull, highest priority first *)
PullSources(d) ==
    LET local == IF d.vcs.branch # None THEN d.vcs.branch ELSE "main"
        registry == IF ~env.found THEN None
                    ELSE IF env.regBranch # None THEN env.regBranch
                    ELSE env.defBranch
    IN <<d.vcs.upstream, OnRemote(registry), OnRemote(local), env.head, local>>

PulledBranches == {last.trace[i].arg : i \in {j \in 1..Len(last.trace) : last.trace[j].ev = "pull"}}

(* C28: the git-based update pulls the first branch available among the    *)
(* local branch's upstream, the registry's branch if on the remote, the    *)
(* local branch name if on the remote, the remote's symbolic default and   *)
(* the local branch name unverified.                                       *)
C28_PullBranchPriority ==
    (last.op = "update_plugin" /\ last.via = "git") =>
        PulledBranches \subseteq {FirstYield(PullSources(last.pre[last.id]))}

C28_Witness ==
    /\ last.op = "update_plugin"
    /\ last.via = "git"
    /\ last.pre[last.id].vcs.upstream = None
    /\ env.regBranch = "b1"
    /\ env.found
    /\ env.exists = {"b1", "main"}
    /\ PulledBranches = {"b1"}
    /\ last.ret

(* an archive-path update of a directory whose leftover git configuration *)
(* still names a remote                                                    *)
ArchiveUpdateWithRemote ==
    /\ last.op = "update_plugin"
    /\ last.via = "archive"
    /\ last.pre[last.id].vcs.url # NoUrl

(* the call went on to acquire from a URL before it removed anything *)
ConvertedFromUrl ==
    /\ last.trace # <<>>
    /\ last.trace[1].ev \in AcquisitionEvents

(* C29: in the archive-based update a remote URL recovered from leftover   *)
(* git configuration makes update_plugin install from that URL in          *)
(* preference to the version comparison and the archive reinstall, whether *)
(* or not the plugin is listed in the registry.                            *)
C29_RecoveredUrlPreferred == ArchiveUpdateWithRemote => ConvertedFromUrl

(* C29 amended: the recovered URL is used only for a plugin the registry   *)
(* does not list, and the update succeeds exactly when that install does;  *)
(* for a listed plugin the version comparison and the registry reinstall   *)
(* apply as if no URL had been found.                                      *)
C29_RecoveredUrlWhenUnlisted ==
    ArchiveUpdateWithRemote =>
        IF env.found
        THEN last.trace = <<>> \/ last.trace[1].ev = "rm"
        ELSE /\ ConvertedFromUrl
             /\ last.ret <=> \E i \in 1..Len(last.trace) :
                                last.trace[i].ev = "validate" /\ last.trace[i].ok

C29_Witness ==
    /\ ArchiveUpdateWithRemote
    /\ ~env.found
    /\ ConvertedFromUrl
    /\ last.ret
    /\ fs[last.id].vcs.git

ArchiveUpdateOfListed ==
    /\ last.op = "update_plugin"
    /\ last.via = "archive"
    /\ env.found

(* the local manifest states a version and the registry advertises the same *)
AtLatestVersion(d) ==
    /\ d.mstate = "ok"
    /\ d.manifest.version # None
    /\ d.manifest.version = env.regVersion

(* C30: for an archive plugin listed in the registry, update_plugin        *)
(* succeeds without touching the filesystem when the local manifest's      *)
(* version equals the registry's latest version; otherwise it removes the  *)
(* directory and runs install_plugin, returning its result, or returns     *)
(* failure without installing when the removal fails.                      *)
C30_VersionCompareThenReinstall ==
    ArchiveUpdateOfListed =>
        IF AtLatestVersion(last.pre[last.id])
        THEN last.ret /\ fs = last.pre /\ last.trace = <<>>
        ELSE /\ last.trace # <<>>
             /\ last.trace[1].ev = "rm"
             /\ last.trace[1].arg = last.id
             /\ IF last.trace[1].ok
                THEN /\ Attempts(last.trace) # <<>>
                     /\ last.ret <=> \E i \in 2..Len(last.trace) :
                                        last.trace[i].ev = "validate" /\ last.trace[i].ok
                ELSE /\ ~last.ret
                     /\ Len(last.trace) = 1
                     /\ fs = last.pre

C30_Witness ==
    /\ ArchiveUpdateOfListed
    /\ last.pre[last.id].manifest.version = "0"
    /\ env.regVersion = "1"
    /\ last.trace # <<>>
    /\ last.trace[1].ok
    /\ last.ret
    /\ fs[last.id].manifest.version = "1"

(* the branches install_plugin lists before de-duplication *)
RawCandidates ==
    <<env.reqBranch, env.regBranch, env.defBranch, env.lastBranch, "main", "master">>

FirstIndex(seq, x) == CHOOSE i \in 1..Len(seq) : seq[i] = x /\ \A j \in 1..(i - 1) : seq[j] # x

Range(seq) == {seq[i] : i \in 1..Len(seq)}

(* C31: install_plugin's branch candidates are the requested branch, the   *)
(* registry branch, the registry default branch, the last-known commit     *)
(* branch, "main" and "master", with empty entries dropped and duplicates  *)
(* removed keeping the first occurrence: no duplicate, no empty entry, the *)
(* order of first occurrences kept, "main" and "master" always present.    *)
C31_BranchCandidateList ==
    last.op = "install_plugin" =>
        LET c == BranchCandidates(env.reqBranch)
        IN /\ \A i, j \in 1..Len(c) : i # j => c[i] # c[j]
           /\ Range(c) = Range(RawCandidates) \ {None, ""}
           /\ \A i, j \in 1..Len(c) :
                 i < j => FirstIndex(RawCandidates, c[i]) < FirstIndex(RawCandidates, c[j])
           /\ {"main", "master"} \subseteq Range(c)
           /\ Attempts(last.trace) # <<>> => Attempts(last.trace)[1].arg = c[1]

C31_Witness ==
    /\ last.op = "install_plugin"
    /\ env.reqBranch = ""
    /\ env.regBranch = "b2"
    /\ env.defBranch = "main"
    /\ env.lastBranch = "b2"
    /\ BranchCandidates(env.reqBranch) = <<"b2", "main", "master">>
    /\ Len(Attempts(last.trace)) = 2
    /\ last.ret

TransientFailures == {"ConnectionError", "Timeout"}

(* what holds of every request whatever is retried: at most three         *)
(* attempts, a wait of 0.75 s times the attempt number after each failed   *)
(* attempt but the last, the first response returned, the last error       *)
(* raised after three failures                                             *)
RetryPolicy(retried) ==
    /\ http.attempts <= 3
    /\ \A a \in 1..(http.attempts - 1) : http.outcomes[a] \in retried
    /\ Len(http.slept) = http.attempts - 1
    /\ \A a \in 1..Len(http.slept) : http.slept[a] = 75 * a
    /\ http.resp # None =>
          /\ http.resp = http.outcomes[http.attempts]
          /\ http.resp \in Responses
          /\ http.raised = None
    /\ (\E a \in 1..http.attempts : http.outcomes[a] \in Responses) => http.resp # None
    /\ http.outcomes[http.attempts] \in retried =>
          /\ http.attempts = 3
          /\ http.raised = http.outcomes[3]
          /\ http.resp = None

CommitBranches ==
    IF env.reqBranch \in {"main", "master"} THEN <<"main", "master">>
    ELSE <<env.reqBranch, "main", "master">>

CommitLookup == net.look.op = "_get_latest_commit_info" /\ ~net.look.bypass

(* C33: _get_latest_commit_info asks for branch, "main" and "master"       *)
(* (deduplicated) in that order and returns the commit of the first branch *)
(* that resolves, naming that branch; a positive result and a failure of   *)
(* all branches are both cached, so that a repeated call for the same key  *)
(* less than 300 seconds later without force_refresh makes no request.     *)
C33_CommitBranchesAndNegativeCache ==
    CommitLookup =>
        LET l == net.look
            n == Len(l.asked)
            recent == ~l.forced /\ Found(l) /\ Age(l) < 300
        IN /\ l.asked = SubSeq(CommitBranches, 1, n)
           /\ \A i \in 1..(n - 1) : l.asked[i] \notin l.heads
           /\ l.fetched => n > 0
           /\ (l.fetched /\ l.asked[n] \in l.heads) => l.result = CommitOn(l.asked[n])
           /\ (l.fetched /\ l.asked[n] \notin l.heads) =>
                 /\ l.result = None
                 /\ l.response # "exception" => n = Len(CommitBranches)
           /\ (l.fetched /\ l.response # "exception") =>
                 net.keyed["commit_info_cache"] = Entry(l.now, l.result)
           /\ recent => l.hit /\ ~l.fetched /\ n = 0 /\ l.result = l.before.data

C33_Witness ==
    /\ CommitLookup
    /\ env.reqBranch = "dev"
    /\ net.look.hit
    /\ Found(net.look)
    /\ net.look.before.data = None
    /\ net.look.result = None
    /\ Age(net.look) = 299

(* the cache a lookup reads and writes *)
CacheOf(op) ==
    IF op = "_get_github_repo_info" THEN "github_cache"
    ELSE IF op = "_get_latest_commit_info" THEN "commit_info_cache"
    ELSE IF op = "_fetch_manifest_from_github" THEN "manifest_cache"
    ELSE "token_validation_cache"

RateLimited == net.look.fetched /\ net.look.response = "403 rate limit"

(* C34: a rate-limited answer (HTTP 403 rate limit) is never stored in the *)
(* repository-info, commit-info, manifest or token-validation cache, so    *)
(* the next call for the same key asks the remote again.                   *)
C34_RateLimitNeverCached ==
    RateLimited => net.keyed[CacheOf(net.look.op)] = net.look.before

Written == net.keyed[CacheOf(net.look.op)] = Entry(net.look.now, net.look.result)

Untouched == net.keyed[CacheOf(net.look.op)] = net.look.before

(* C35: _get_github_repo_info caches a successful result for one hour; on  *)
(* HTTP 403 a rate limit is not cached while a permission error is, so the *)
(* next call within the time-to-live asks nothing; any other non-200       *)
(* answer gives the zeroed struct and nothing is raised.                   *)
C35_RepoInfoCaching ==
    (net.look.op = "_get_github_repo_info" /\ ~net.look.bypass) =>
        LET l == net.look
        IN /\ (~l.forced /\ Found(l) /\ Age(l) < 3600) => l.hit /\ ~l.fetched
           /\ (l.fetched /\ l.response = "200") => Written /\ l.result = "repo_info"
           /\ (l.fetched /\ l.response = "403 rate limit") => Untouched
           /\ (l.fetched /\ l.response = "403") => Written
           /\ (l.fetched /\ l.response # "200") => l.result = "defaults" /\ ~l.raised

(* C36: _validate_github_token caches its verdict exactly after HTTP 200,  *)
(* HTTP 401 and HTTP 403 without a rate-limit indicator; a rate-limited    *)
(* 403, a timeout or a network error gives invalid and writes nothing.     *)
C36_TokenVerdictCaching ==
    (net.look.op = "_validate_github_token" /\ net.look.fetched) =>
        LET l == net.look
        IN /\ l.response \in {"200", "401", "403"} => Written
           /\ l.response \notin {"200", "401", "403"} => Untouched
           /\ l.response \in {"403 rate limit", "exception"} => l.result = "invalid"
           /\ l.result = "valid" <=> l.response = "200"

(* C37: plugin descriptors are immutable once fetched: whatever searches   *)
(* and get_plugin_info calls were made, saved custom repositories          *)
(* included, a fetch_registry call served from the cache returns exactly   *)
(* the plugin list that was fetched.                                       *)
C37_CachedCatalogNeverModified ==
    (net.look.op = "fetch_registry" /\ net.look.hit /\ net.look.result = Catalog) =>
        net.plugins = <<"official">>

(* no acquisition step of the call was made twice for the same branch *)
AttemptedOnce ==
    LET at == Attempts(last.trace)
    IN \A i, j \in 1..Len(at) : (at[i].ev = at[j].ev /\ at[i].arg = at[j].arg) => i = j

(* C38: every install_plugin call ends with a result after a bounded       *)
(* number of acquisition attempts, each pair of strategy and branch        *)
(* candidate being attempted at most once.                                 *)
C38_InstallTerminatesWithResult ==
    last.op = "install_plugin" =>
        /\ ~last.raised
        /\ AttemptedOnce
        /\ Len(Attempts(last.trace)) <= 2 * Len(BranchCandidates(env.reqBranch)) + 1

---------------------------------------------------------------------------
(* C39: every temporary zip file and scratch extraction directory of the    *)
(* archive strategies, and the temporary directory of install_from_url, no  *)
(* longer exists when the operation returns, on success and on failure.     *)
C39_NoTemporaryLeftBehind ==
    last.op # "none" => (last.temps = {} /\ ~fs[Tmp].exists)

---------------------------------------------------------------------------
(* the call ended before the manifest passed validation: acquisition failed *)
(* or the manifest was missing, unreadable, without id or incomplete        *)
FailedBeforeReplacement ==
    /\ last.op = "install_from_url"
    /\ ~last.ret
    /\ ~\E i \in 1..Len(last.trace) : last.trace[i].ev = "validate" /\ last.trace[i].ok

(* C40: an install_from_url call that fails during acquisition or manifest *)
(* validation leaves every installed plugin directory as it was before the *)
(* call: the existing directory is replaced only after validation passed.  *)
C40_FailedUrlInstallKeepsExisting ==
    FailedBeforeReplacement => \A id \in Ids : fs[id] = last.pre[id]

C40_Witness ==
    /\ FailedBeforeReplacement
    /\ \E i \in 1..Len(last.trace) : last.trace[i].ev = "validate" /\ ~last.trace[i].ok
    /\ last.final \in Ids
    /\ last.pre[last.final].exists
    /\ fs[last.final] = last.pre[last.final]

====
